---------------------------- MODULE Spec2Model ----------------------------
(***************************************************************************)
(* Benchmark orchestration of the AADvanced project.                       *)
(*                                                                         *)
(*   SpecBench  run_all_benchmarks        src/run_scripts/run_all_algos.py *)
(*   SpecProbe  run_cpp_algorithm         src/run_scripts/run_all_algos.py *)
(*   SpecLoops  the benchmark scripts     run_centrality_benchmark.py,     *)
(*                                        run_community_benchmark.py       *)
(*   SpecRecon  run_cpp_algorithms        src/Algorithms/Centrality/       *)
(*                                        run_all_algos.py                 *)
(*   SpecNative run_all_benchmarks or run_cpp_algorithms                   *)
(*   SpecPy     run_python_algorithms     src/Algorithms/Centrality/       *)
(*                                        run_all_algos.py                 *)
(*   SpecCsv    the centrality CSV, written and read back (same file)      *)
(*   SpecFb     analyze_facebook_dataset, generate_report                  *)
(*                                        src/run_facebook_analysis.py     *)
(*   SpecPrep   dataset preparation of the two main functions              *)
(*   SpecSkip   should_skip_algorithm     src/run_scripts/run_all_algos.py *)
(*   SpecWeb    the request handlers      src/BONUS/web_dashboard.py       *)
(*   SpecSir    simulate_sir_model        src/BONUS/web_dashboard.py       *)
(*   SpecThr, SpecThrLive                                                  *)
(*              simulate_threshold_model  src/BONUS/web_dashboard.py       *)
(*                                                                         *)
(* Times are whole seconds.  Algorithm names are sequences of the words    *)
(* that "_" separates, so that Python's substring test `key in name` is    *)
(* computed (Contains) and not looked up.                                  *)
(***************************************************************************)
EXTENDS Integers, Sequences, FiniteSets, TLC

(***************************************************************************)
(* Configuration of src/run_scripts/run_all_algos.py                       *)
(***************************************************************************)
TIMEOUT == 120

EXCLUDE_ALGOS == { <<"girvan", "newman">>, <<"eigenvector">> }

BetweennessEdgeLimit == 50000

ClosenessEdgeLimit == 100000

N_NODES == 1000

\* simulate_sir_model: one patient zero per 50 nodes (N // 50) and the steps
\* a died-out infection is repeated for (step + 10).
PatientZeroShare == 50

PadSteps == 10

\* simulate_threshold_model: at least 3 seeds, one per 20 nodes (N // 20);
\* at most 50 steps; the loop ends at the third unchanged count.
MinSeeds == 3

SeedShare == 20

max_steps == 50

StallLimit == 3

\* all_algos = {**centrality_algos, **community_algos, **graph_algos}, in
\* the insertion order of the three dictionaries.  cpp: a native path is
\* configured; python: a NetworkX reference function is configured.
all_algos ==
  << [name |-> <<"degree">>,               cpp |-> TRUE, python |-> TRUE ],
     [name |-> <<"closeness">>,            cpp |-> TRUE, python |-> TRUE ],
     [name |-> <<"betweenness">>,          cpp |-> TRUE, python |-> TRUE ],
     [name |-> <<"pagerank">>,             cpp |-> TRUE, python |-> TRUE ],
     [name |-> <<"label", "propagation">>, cpp |-> TRUE, python |-> FALSE],
     [name |-> <<"kosaraju">>,             cpp |-> TRUE, python |-> FALSE],
     [name |-> <<"tarjan">>,               cpp |-> TRUE, python |-> FALSE] >>

(***************************************************************************)
(* Bounds of the model                                                     *)
(***************************************************************************)
\* Pairs of one run in which the environment may misbehave (a binary that
\* is missing, fails, hangs or writes nothing; a reference computation that
\* raises, is slow or returns nothing).  Within such a pair every
\* combination of native and reference outcome is explored.
MaxFaultyPairs == 1

\* Algorithms of one call of run_cpp_algorithms that have an executable or
\* files on disk; for the others the executable is missing and nothing is
\* there.  For such an algorithm every set of files is explored.
MaxBusyAlgos == 1

\* Timeouts and child life times tried on run_cpp_algorithm alone.
MaxTimeout == 3

MaxDuration == 4

MaxExitCode == 2

\* The largest node id, and the most entries, of a mapping written as CSV.
MaxNodeId == 12

MaxEntries == 2

\* Algorithms of one Facebook analysis that do not succeed, the one that is
\* always skipped apart.
MaxFbFaults == 2

\* Requests the dashboard handles in one run of the model.
MaxRequests == 3

\* The largest value of the argument steps of simulate_sir_model.
MaxSteps == 12

\* Names of the datasets handed to run_all_benchmarks, in dictionary order.
DatasetNames == << "sparse", "snap_facebook" >>

\* Edge counts get_graph_stats may report: both sides of both limits.
EdgeCounts == { BetweennessEdgeLimit, BetweennessEdgeLimit + 1,
                ClosenessEdgeLimit, ClosenessEdgeLimit + 1 }

VARIABLES
  \* ---- run_all_benchmarks
  use_cpp,            \* argument use_cpp
  datasets,           \* argument datasets: <<[name, exists, nodes, edges]>>
  di,                 \* position of the outer loop in datasets
  ai,                 \* position of the inner loop in all_algos
  pc,                 \* "main" | "dataset" | "pair" | "native" | "fallback" | "save" |
                      \* "done" | "crashed" (an exception left the function)
  benchmark_results,  \* the list of rows
  success,            \* local success
  impl_used,          \* local impl_used
  trace,              \* what was done for the pair in hand: <<step, status>>
  cur,                \* the pair in hand, <<di, ai>>
  attempted,          \* pairs <<di, ai>> whose iteration has begun
  artifacts,          \* files written under results_dir: <<kind, di, ai>>
  calls,              \* <<"native" | "python", di, ai>>: what was run for a pair
  written,            \* benchmark_results.csv has been written
  faults,             \* pairs in which the environment has misbehaved
  curFaulty,          \* ... the pair in hand is one of them
  \* ---- run_cpp_algorithm, called on its own
  pTimeout,           \* argument timeout
  pChild,             \* what the spawned child does
  pState,             \* "called" | "running" | "returned" | "raised"
  pResult,            \* the returned (elapsed, status)
  pAlive,             \* the child process is still running
  \* ---- the benchmark scripts run_centrality_benchmark.py and
  \*      run_community_benchmark.py (module level code)
  lScript,            \* "centrality" | "community"
  lG,                 \* position of the outer loop in graphs
  lA,                 \* position of the inner loop in algorithms
  lPc,                \* "graph" | "pair" | "save" | "done" | "crashed"
  lRows,              \* rows
  lAttempted,         \* pairs <<lG, lA>> whose iteration has begun
  lFile,              \* community_output.txt: << >> (absent), or the pair
                      \* <<g, a>> whose run wrote it
  lWritten,           \* the results CSV has been written
  \* ---- run_cpp_algorithms (src/Algorithms/Centrality/run_all_algos.py)
  output_dir,         \* argument output_dir
  cpp_dir,            \* argument cpp_dir
  rI,                 \* position of the loop in algos
  rPc,                \* "begin" | "exec" | "locate" | "move" | "record" | "again"
                      \* | "done"
  fs,                 \* the files of the algorithm in hand: path -> content
  exe_ok,             \* exe_path exists and is executable
  spawned,            \* subprocess.run was called for the algorithm in hand
  ran,                \* local ran
  src_csv,            \* local src_csv (NoPath for None)
  src_time,           \* local src_time (NoPath for None)
  results,            \* local results: a set of [shortname, centrality_file,
                      \* time_file]
  busy,               \* algorithms met so far that had an executable or files
  \* ---- run_python_algorithms (src/Algorithms/Centrality/run_all_algos.py)
  yI,                 \* position of the loop in algo_funcs
  yPc,                \* "load" | "compute" | "write" | "done" | "crashed"
  yVals,              \* local vals: "none", "own" (what func returned) or
                      \* "degree" (what nx.degree_centrality returned)
  yLog,               \* per finished algorithm: [shortname, raised, vals, wrote]
  yResults,           \* local results: a set of [shortname, centrality_file,
                      \* time_file]
  yFiles,             \* files written under output_dir: <<shortname, kind>>
  \* ---- a centrality CSV written by run_python_algorithms and read by
  \*      read_centrality_csv
  cVals,              \* vals: node id -> value
  cFile,              \* the lines of the file, each a sequence of characters
  cRead,              \* what read_centrality_csv returned
  cPc,                \* "write" | "read" | "done"
  \* ---- run_facebook_analysis.py: analyze_facebook_dataset, then
  \*      generate_report
  fI,                 \* position in FbAlgos
  fPc,                \* "run" | "report" | "done" | "crashed"
  fAttempts,          \* what was attempted: <<[algorithm, outcome]>>
  all_results,        \* local all_results: <<[algorithm, status]>>
  fCsv,               \* the rows of algorithm_performance.csv
  fListed,            \* algorithms the report lists as failed
  fFaults,            \* algorithms that did not succeed, the skipped one apart
  \* ---- dataset preparation of main (src/Algorithms/Centrality/run_all_algos.py
  \*      and src/run_scripts/run_all_algos.py)
  dScript,            \* "centrality" | "bench": which main runs
  skip_generate,      \* --skip-generate
  snap_only,          \* --snap-only (the benchmark main only)
  snap_datasets,      \* what discover_snap_datasets finds
  disk,               \* the synthetic edge-list files: Absent, <<"old">> (there
                      \* at start-up) or <<"new">> (written by this run)
  disk0,              \* disk at start-up
  edges_files,        \* edges_files of the centrality main: the names it holds
  all_datasets,       \* all_datasets of the benchmark main: the names it holds
  gI,                 \* the next graph generate_all_graphs writes
  dPc,                \* "start" | "decide" | "generate" | "snap" | "run" | "exit"
  \* ---- should_skip_algorithm, called on its own
  kName,              \* argument algo_name, as words
  kEdges,             \* argument num_edges
  kPc,                \* "called" | "returned"
  kResult,            \* the returned (skip, reason)
  \* ---- the request handlers of src/BONUS/web_dashboard.py
  networks,           \* the global networks: for each name "none" (no such key),
                      \* "default" (made by load_or_generate_networks) or
                      \* "custom" (made by generate_network)
  wRequests,          \* requests handled so far
  wResponse,          \* the last response: [endpoint, status, graph]
  \* ---- simulate_sir_model (src/BONUS/web_dashboard.py)
  sirG,               \* argument G: [n, edges], the nodes are 0..n-1
  steps,              \* argument steps
  state,              \* state: node -> 0 (susceptible), 1 (infected), 2 (recovered)
  sirStep,            \* step of the loop
  sirTimeline,        \* timeline
  sirPc,              \* "seed" | "record" | "spread" | "done" | "raised"
  \* ---- simulate_threshold_model (src/BONUS/web_dashboard.py)
  thrG,               \* argument G
  threshold,          \* argument threshold, the fraction [num, den]
  random_seeds,       \* what random.sample gives when it is called:
                      \* [raised, nodes]
  adopted,            \* adopted: node -> BOOLEAN
  thrStep,            \* step
  thrTimeline,        \* timeline
  prev_count,         \* prev_count
  stall_count,        \* stall_count
  thrPc               \* "seed" | "record" | "spread" | "done" | "raised"

cfgVars == << use_cpp, datasets >>

pairVars == << success, impl_used, trace, cur >>

outVars == << benchmark_results, artifacts, calls, attempted, written >>

envVars == << faults, curFaulty >>

benchVars == << cfgVars, di, ai, pc, pairVars, outVars, envVars >>

probeVars == << pTimeout, pChild, pState, pResult, pAlive >>

loopVars == << lScript, lG, lA, lPc, lRows, lAttempted, lFile, lWritten >>

reconVars == << output_dir, cpp_dir, rI, rPc, fs, exe_ok, spawned, ran,
                src_csv, src_time, results, busy >>

pyVars == << yI, yPc, yVals, yLog, yResults, yFiles >>

csvVars == << cVals, cFile, cRead, cPc >>

fbVars == << fI, fPc, fAttempts, all_results, fCsv, fListed, fFaults >>

prepVars == << dScript, skip_generate, snap_only, snap_datasets, disk, disk0, edges_files, all_datasets, gI, dPc >>

skipVars == << kName, kEdges, kPc, kResult >>

webVars == << networks, wRequests, wResponse >>

sirVars == << sirG, steps, state, sirStep, sirTimeline, sirPc >>

thrVars == << thrG, threshold, random_seeds, adopted, thrStep, thrTimeline, prev_count, stall_count, thrPc >>

vars == << benchVars, probeVars, loopVars, reconVars, pyVars, csvVars, fbVars, prepVars, skipVars, webVars, sirVars, thrVars >>

\* What the steps of one function leave alone: the state of the others.
notBench == << probeVars, loopVars, reconVars, pyVars, csvVars, fbVars, prepVars, skipVars, webVars, sirVars, thrVars >>

notProbe == << benchVars, loopVars, reconVars, pyVars, csvVars, fbVars, prepVars, skipVars, webVars, sirVars, thrVars >>

notLoop == << benchVars, probeVars, reconVars, pyVars, csvVars, fbVars, prepVars, skipVars, webVars, sirVars, thrVars >>

notRecon == << benchVars, probeVars, loopVars, pyVars, csvVars, fbVars, prepVars, skipVars, webVars, sirVars, thrVars >>

notPy == << benchVars, probeVars, loopVars, reconVars, csvVars, fbVars, prepVars, skipVars, webVars, sirVars, thrVars >>

notCsv == << benchVars, probeVars, loopVars, reconVars, pyVars, fbVars, prepVars, skipVars, webVars, sirVars, thrVars >>

notFb == << benchVars, probeVars, loopVars, reconVars, pyVars, csvVars, prepVars, skipVars, webVars, sirVars, thrVars >>

notPrep == << benchVars, probeVars, loopVars, reconVars, pyVars, csvVars, fbVars, skipVars, webVars, sirVars, thrVars >>

notSkip == << benchVars, probeVars, loopVars, reconVars, pyVars, csvVars, fbVars, prepVars, webVars, sirVars, thrVars >>

notWeb == << benchVars, probeVars, loopVars, reconVars, pyVars, csvVars, fbVars, prepVars, skipVars, sirVars, thrVars >>

notSir == << benchVars, probeVars, loopVars, reconVars, pyVars, csvVars, fbVars, prepVars, skipVars, webVars, thrVars >>

notThr == << benchVars, probeVars, loopVars, reconVars, pyVars, csvVars, fbVars, prepVars, skipVars, webVars, sirVars >>

(***************************************************************************)
(* Helpers                                                                 *)
(***************************************************************************)
\* Python's `key in name` on strings, on words.
Contains(name, key) ==
  \E i \in 1..(Len(name) - Len(key) + 1) :
     SubSeq(name, i, i + Len(key) - 1) = key

\* The pair's trace holds a step of this kind.
Did(step) == \E i \in 1..Len(trace) : trace[i][1] = step

\* What a child process can do once spawning is attempted.
\*   kind "exit":    it starts and ends after dur seconds with exit code
\*   kind "enoent":  the spawn raises FileNotFoundError
\*   kind "oserror": the spawn raises another exception (PermissionError...)
\*   wrote: it left its result at the output path it was given
Child(kind, code, dur, wrote) ==
  [kind |-> kind, code |-> code, dur |-> dur, wrote |-> wrote]

\* The status standing for "the call raised instead of returning".
RAISED == "<exception escaped>"

(***************************************************************************)
(* Each function is modelled on its own: while one runs, the state of the  *)
(* others rests in these values.                                           *)
(***************************************************************************)
Path(dir, stem, kind) == [dir |-> dir, stem |-> stem, kind |-> kind]

NoPath == [dir |-> "", stem |-> "", kind |-> ""]

Absent == << >>

BenchIdle ==
  /\ use_cpp = FALSE
  /\ datasets = << >>
  /\ di = 1
  /\ ai = 1
  /\ pc = "done"
  /\ benchmark_results = << >>
  /\ success = FALSE
  /\ impl_used = "Python"
  /\ trace = << >>
  /\ cur = << 0, 0 >>
  /\ attempted = { }
  /\ artifacts = { }
  /\ calls = { }
  /\ written = FALSE
  /\ faults = 0
  /\ curFaulty = FALSE

ProbeIdle ==
  /\ pTimeout = 0
  /\ pChild = Child("exit", 0, 0, FALSE)
  /\ pState = "returned"
  /\ pResult = << 0, "Success" >>
  /\ pAlive = FALSE

LoopIdle ==
  /\ lScript = "centrality"
  /\ lG = 1
  /\ lA = 1
  /\ lPc = "done"
  /\ lRows = << >>
  /\ lAttempted = { }
  /\ lFile = << >>
  /\ lWritten = FALSE

ReconIdle ==
  /\ output_dir = "output"
  /\ cpp_dir = "CPP"
  /\ rI = 1
  /\ rPc = "done"
  /\ fs = << >>
  /\ exe_ok = FALSE
  /\ spawned = FALSE
  /\ ran = FALSE
  /\ src_csv = NoPath
  /\ src_time = NoPath
  /\ results = { }
  /\ busy = 0

PyIdle ==
  /\ yI = 1
  /\ yPc = "done"
  /\ yVals = "none"
  /\ yLog = << >>
  /\ yResults = { }
  /\ yFiles = { }

CsvIdle ==
  /\ cVals = << >>
  /\ cFile = << >>
  /\ cRead = << >>
  /\ cPc = "done"

FbIdle ==
  /\ fI = 1
  /\ fPc = "done"
  /\ fAttempts = << >>
  /\ all_results = << >>
  /\ fCsv = << >>
  /\ fListed = { }
  /\ fFaults = 0

PrepIdle ==
  /\ dScript = "none"
  /\ skip_generate = FALSE
  /\ snap_only = FALSE
  /\ snap_datasets = { }
  /\ disk = << >>
  /\ disk0 = << >>
  /\ edges_files = { }
  /\ all_datasets = { }
  /\ gI = 1
  /\ dPc = "idle"

SkipIdle ==
  /\ kName = << >>
  /\ kEdges = 0
  /\ kPc = "idle"
  /\ kResult = << >>

WebIdle ==
  /\ networks = << >>
  /\ wRequests = 0
  /\ wResponse = << >>

SirIdle ==
  /\ sirG = << >>
  /\ steps = 0
  /\ state = << >>
  /\ sirStep = 0
  /\ sirTimeline = << >>
  /\ sirPc = "idle"

ThrIdle ==
  /\ thrG = << >>
  /\ threshold = << >>
  /\ random_seeds = << >>
  /\ adopted = << >>
  /\ thrStep = 0
  /\ thrTimeline = << >>
  /\ prev_count = 0
  /\ stall_count = 0
  /\ thrPc = "idle"

(***************************************************************************)
(* should_skip_algorithm(algo_name, num_edges) -> (skip, reason)           *)
(***************************************************************************)
\* Variant: a graph of exactly the limit is skipped too.
should_skip_algorithm_at_limit(algo_name, num_edges) ==
  IF \E excl \in EXCLUDE_ALGOS : Contains(algo_name, excl)
    THEN << TRUE, "Excluded (too slow)" >>
  ELSE IF Contains(algo_name, <<"betweenness">>) /\ num_edges >= BetweennessEdgeLimit
    THEN << TRUE, "Skipped (graph too large)" >>
  ELSE IF Contains(algo_name, <<"closeness">>) /\ num_edges >= ClosenessEdgeLimit
    THEN << TRUE, "Skipped (graph too large)" >>
  ELSE << FALSE, "" >>

should_skip_algorithm(algo_name, num_edges) ==
  IF \E excl \in EXCLUDE_ALGOS : Contains(algo_name, excl)
    THEN << TRUE, "Excluded (too slow)" >>
  ELSE IF Contains(algo_name, <<"betweenness">>) /\ num_edges > BetweennessEdgeLimit
    THEN << TRUE, "Skipped (graph too large)" >>
  ELSE IF Contains(algo_name, <<"closeness">>) /\ num_edges > ClosenessEdgeLimit
    THEN << TRUE, "Skipped (graph too large)" >>
  ELSE << FALSE, "" >>

(***************************************************************************)
(* run_cpp_algorithm(exe_path, edges_file, output_csv, timeout)            *)
(*   -> (elapsed, status)                                                  *)
(* subprocess.run raises TimeoutExpired when the child is still running    *)
(* after `timeout` seconds (and kills it first).                           *)
(***************************************************************************)
\* Variant: the elapsed time of a timed-out run is measured, not set.
run_cpp_algorithm_measured(child, timeout) ==
  CASE child.kind = "enoent"  -> << 0, "Binary not found" >>
    [] child.kind = "oserror" -> << 0, "Error" >>
    [] OTHER ->
         IF child.dur > timeout THEN << timeout + 1, "Timeout" >>
         ELSE IF child.code = 0 THEN << child.dur, "Success" >>
         ELSE << child.dur, "Failed (exit code)" >>

\* Variant: without the last handler, `except Exception`.
run_cpp_algorithm_nocatchall(child, timeout) ==
  CASE child.kind = "enoent"  -> << 0, "Binary not found" >>
    [] child.kind = "oserror" -> << 0, RAISED >>
    [] OTHER ->
         IF child.dur > timeout THEN << timeout, "Timeout" >>
         ELSE IF child.code = 0 THEN << child.dur, "Success" >>
         ELSE << child.dur, "Failed (exit code)" >>

run_cpp_algorithm(child, timeout) ==
  CASE child.kind = "enoent"  -> << 0, "Binary not found" >>
    [] child.kind = "oserror" -> << 0, "Error" >>
    [] OTHER ->
         IF child.dur > timeout THEN << timeout, "Timeout" >>
         ELSE IF child.code = 0 THEN << child.dur, "Success" >>
         ELSE << child.dur, "Failed (exit code)" >>

(***************************************************************************)
(* run_python_algorithm(algo_func, edges_file, timeout)                    *)
(*   -> (result, elapsed, status)                                          *)
(* comp.kind "raise": read_edgelist or algo_func raises; "ok": algo_func   *)
(* returns comp.values ("some" | "empty" mapping) after comp.dur seconds.  *)
(* The result None is written "none".                                      *)
(***************************************************************************)
\* Variant: without the try block.
run_python_algorithm_unguarded(comp, timeout) ==
  IF comp.kind = "raise" THEN << "none", 0, RAISED >>
  ELSE IF comp.dur > timeout THEN << "none", comp.dur, "Timeout" >>
  ELSE << comp.values, comp.dur, "Success" >>

run_python_algorithm(comp, timeout) ==
  IF comp.kind = "raise" THEN << "none", 0, "Error" >>
  ELSE IF comp.dur > timeout THEN << "none", comp.dur, "Timeout" >>
  ELSE << comp.values, comp.dur, "Success" >>

(***************************************************************************)
(* run_all_benchmarks(datasets, output_dir, use_cpp)                       *)
(***************************************************************************)
Row(d, a, runtime_ms, status, impl) ==
  [ dataset        |-> datasets[d].name,
    algorithm      |-> all_algos[a].name,
    nodes          |-> datasets[d].nodes,
    edges          |-> datasets[d].edges,
    runtime_ms     |-> runtime_ms,
    status         |-> status,
    implementation |-> impl ]

\* The children and reference computations the environment offers a pair.
NominalChild == Child("exit", 0, 1, TRUE)

BenchChildren ==
  { Child("exit", c, d, w) : c \in {0, 1}, d \in {1, TIMEOUT + 1}, w \in BOOLEAN }
  \cup { Child("enoent", 0, 0, FALSE), Child("oserror", 0, 0, FALSE) }

NominalComp == [kind |-> "ok", values |-> "some", dur |-> 1]

BenchComps ==
  { [kind |-> "ok", values |-> v, dur |-> d] :
       v \in {"some", "empty"}, d \in {1, TIMEOUT + 1} }
  \cup { [kind |-> "raise", values |-> "none", dur |-> 0] }

\* The environment misbehaves in at most MaxFaultyPairs pairs.
MayDraw(nominal) == nominal \/ curFaulty \/ faults < MaxFaultyPairs

Charge(nominal) ==
  /\ faults' = IF nominal \/ curFaulty THEN faults ELSE faults + 1
  /\ curFaulty' = (curFaulty \/ ~nominal)

\* Variant: the flag is not looked at.
NativeWanted_whatever_flag == all_algos[ai].cpp

\* line 288: if use_cpp and algo_info.get('cpp')
NativeWanted == use_cpp /\ all_algos[ai].cpp

\* Variant: the fallback does not look at success.
FallbackWanted_any == all_algos[ai].python

\* line 315: if not success and algo_info.get('python')
FallbackWanted == ~success /\ all_algos[ai].python

\* line 253: the outer loop is exhausted
\* main, lines 494-505: without --no-cpp the two build scripts are run (an
\* exception is caught), then run_all_benchmarks(use_cpp=True) is called
MainBuild ==
  /\ pc = "main"
  /\ use_cpp
  /\ calls' = calls \cup { <<"build", 0, 0>> }
  /\ pc' = "dataset"
  /\ UNCHANGED << cfgVars, di, ai, pairVars, benchmark_results, artifacts,
                  attempted, written, envVars, notBench >>

\* main, lines 494 and 505: with --no-cpp nothing is built and
\* run_all_benchmarks(use_cpp=False) is called
MainNoBuild ==
  /\ pc = "main"
  /\ ~use_cpp
  /\ pc' = "dataset"
  /\ UNCHANGED << cfgVars, di, ai, pairVars, outVars, envVars, notBench >>

DatasetsDone ==
  /\ pc = "dataset" /\ di > Len(datasets)
  /\ pc' = "save"
  /\ UNCHANGED << cfgVars, di, ai, pairVars, outVars, envVars, notBench >>

\* Variant: a missing file ends the outer loop (break for continue).
DatasetMissing_break ==
  /\ pc = "dataset" /\ di <= Len(datasets)
  /\ ~datasets[di].exists
  /\ pc' = "save"
  /\ UNCHANGED << cfgVars, di, ai, pairVars, outVars, envVars, notBench >>

\* lines 255-257: the file is not there, continue with the next dataset
DatasetMissing ==
  /\ pc = "dataset" /\ di <= Len(datasets)
  /\ ~datasets[di].exists
  /\ di' = di + 1
  /\ UNCHANGED << cfgVars, ai, pc, pairVars, outVars, envVars, notBench >>

\* lines 259-264: get_graph_stats, then the inner loop starts
DatasetBegin ==
  /\ pc = "dataset" /\ di <= Len(datasets)
  /\ datasets[di].exists
  /\ ai' = 1
  /\ pc' = "pair"
  /\ UNCHANGED << cfgVars, di, pairVars, outVars, envVars, notBench >>

\* line 264: the inner loop is exhausted
AlgosDone ==
  /\ pc = "pair" /\ ai > Len(all_algos)
  /\ di' = di + 1
  /\ pc' = "dataset"
  /\ UNCHANGED << cfgVars, ai, pairVars, outVars, envVars, notBench >>

\* Variant: the skip branch without its `continue`.
SkipPair_falls_through ==
  /\ pc = "pair" /\ ai <= Len(all_algos)
  /\ LET sk == should_skip_algorithm(all_algos[ai].name, datasets[di].edges)
     IN  /\ sk[1]
         /\ benchmark_results' =
              Append(benchmark_results, Row(di, ai, -1, sk[2], "N/A"))
         /\ trace' = << <<"skip", sk[2]>> >>
  /\ attempted' = attempted \cup { <<di, ai>> }
  /\ cur' = <<di, ai>>
  /\ curFaulty' = FALSE
  /\ success' = FALSE
  /\ impl_used' = "Python"
  /\ pc' = "native"
  /\ UNCHANGED << cfgVars, di, ai, artifacts, calls, written, faults,
                  notBench >>

\* Variant: the row of a skipped pair is put at the head of the table.
SkipPair_row_first ==
  /\ pc = "pair" /\ ai <= Len(all_algos)
  /\ LET sk == should_skip_algorithm(all_algos[ai].name, datasets[di].edges)
     IN  /\ sk[1]
         /\ benchmark_results' =
              << Row(di, ai, -1, sk[2], "N/A") >> \o benchmark_results
         /\ trace' = << <<"skip", sk[2]>> >>
  /\ attempted' = attempted \cup { <<di, ai>> }
  /\ cur' = <<di, ai>>
  /\ curFaulty' = FALSE
  /\ ai' = ai + 1
  /\ UNCHANGED << cfgVars, di, pc, success, impl_used, artifacts, calls,
                  written, faults, notBench >>

\* lines 267-279: the pair is skipped, its row carries the reason
SkipPair ==
  /\ pc = "pair" /\ ai <= Len(all_algos)
  /\ LET sk == should_skip_algorithm(all_algos[ai].name, datasets[di].edges)
     IN  /\ sk[1]
         /\ benchmark_results' =
              Append(benchmark_results, Row(di, ai, -1, sk[2], "N/A"))
         /\ trace' = << <<"skip", sk[2]>> >>
  /\ attempted' = attempted \cup { <<di, ai>> }
  /\ cur' = <<di, ai>>
  /\ curFaulty' = FALSE
  /\ ai' = ai + 1
  /\ UNCHANGED << cfgVars, di, pc, success, impl_used, artifacts, calls,
                  written, faults, notBench >>

\* lines 267-286: the pair is not skipped
PairBegin ==
  /\ pc = "pair" /\ ai <= Len(all_algos)
  /\ ~should_skip_algorithm(all_algos[ai].name, datasets[di].edges)[1]
  /\ attempted' = attempted \cup { <<di, ai>> }
  /\ cur' = <<di, ai>>
  /\ trace' = << >>
  /\ curFaulty' = FALSE
  /\ success' = FALSE
  /\ impl_used' = "Python"
  /\ pc' = "native"
  /\ UNCHANGED << cfgVars, di, ai, benchmark_results, artifacts, calls,
                  written, faults, notBench >>

\* line 288 is false: native executables are off, or none is configured
NativeOff ==
  /\ pc = "native"
  /\ ~NativeWanted
  /\ pc' = "fallback"
  /\ UNCHANGED << cfgVars, di, ai, pairVars, outVars, envVars, notBench >>

\* Variant: without the os.path.exists / os.access test of line 290.
NativeMissing_spawns ==
  /\ pc = "native"
  /\ NativeWanted
  /\ MayDraw(FALSE) /\ Charge(FALSE)
  /\ trace' = trace \o << <<"exe_missing", "">>,
                           <<"native", "Binary not found">> >>
  /\ calls' = calls \cup { <<"native", di, ai>> }
  /\ impl_used' = "C++"
  /\ pc' = "fallback"
  /\ UNCHANGED << cfgVars, di, ai, success, cur, benchmark_results,
                  artifacts, attempted, written, notBench >>

\* line 290 is false: the executable is absent or not executable
NativeMissing ==
  /\ pc = "native"
  /\ NativeWanted
  /\ MayDraw(FALSE) /\ Charge(FALSE)
  /\ trace' = Append(trace, <<"exe_missing", "">>)
  /\ pc' = "fallback"
  /\ UNCHANGED << cfgVars, di, ai, success, impl_used, cur, outVars,
                  notBench >>

\* Variant: the outcome of a run that did not succeed is given a row too.
NativeRun_rows_every_outcome ==
  /\ pc = "native"
  /\ NativeWanted
  /\ \E child \in BenchChildren :
       LET res == run_cpp_algorithm(child, TIMEOUT)
           out == IF child.kind = "exit" /\ child.wrote
                    THEN { <<"csv", di, ai>> } ELSE { }
       IN  /\ MayDraw(child = NominalChild) /\ Charge(child = NominalChild)
           /\ trace' = Append(trace, <<"native", res[2]>>)
           /\ pc' = IF res[2] = RAISED THEN "crashed" ELSE "fallback"
           /\ impl_used' = IF res[2] = RAISED THEN impl_used ELSE "C++"
           /\ IF res[2] = "Success"
                THEN /\ success' = TRUE
                     /\ artifacts' = artifacts \cup out \cup { <<"time", di, ai>> }
                     /\ benchmark_results' =
                          Append(benchmark_results,
                                 Row(di, ai, res[1] * 1000, res[2], "C++"))
                ELSE /\ success' = success
                     /\ artifacts' = artifacts \cup out
                     /\ benchmark_results' =
                          IF res[2] = RAISED THEN benchmark_results
                          ELSE Append(benchmark_results,
                                      Row(di, ai, -1, res[2], "C++"))
  /\ calls' = calls \cup { <<"native", di, ai>> }
  /\ UNCHANGED << cfgVars, di, ai, cur, attempted, written, notBench >>

\* lines 290-312: the executable is run
NativeRun ==
  /\ pc = "native"
  /\ NativeWanted
  /\ \E child \in BenchChildren :
       LET res == run_cpp_algorithm(child, TIMEOUT)
           out == IF child.kind = "exit" /\ child.wrote
                    THEN { <<"csv", di, ai>> } ELSE { }
       IN  /\ MayDraw(child = NominalChild) /\ Charge(child = NominalChild)
           /\ trace' = Append(trace, <<"native", res[2]>>)
           /\ pc' = IF res[2] = RAISED THEN "crashed" ELSE "fallback"
           /\ impl_used' = IF res[2] = RAISED THEN impl_used ELSE "C++"
           /\ IF res[2] = "Success"
                THEN /\ success' = TRUE
                     /\ artifacts' = artifacts \cup out \cup { <<"time", di, ai>> }
                     /\ benchmark_results' =
                          Append(benchmark_results,
                                 Row(di, ai, res[1] * 1000, res[2], "C++"))
                ELSE /\ success' = success
                     /\ artifacts' = artifacts \cup out
                     /\ benchmark_results' = benchmark_results
  /\ calls' = calls \cup { <<"native", di, ai>> }
  /\ UNCHANGED << cfgVars, di, ai, cur, attempted, written, notBench >>

\* Variant: a pair without anything left to run ends the inner loop.
NoFallback_break ==
  /\ pc = "fallback"
  /\ ~FallbackWanted
  /\ di' = di + 1
  /\ pc' = "dataset"
  /\ UNCHANGED << cfgVars, ai, pairVars, outVars, envVars, notBench >>

\* line 315 is false: nothing more is done for the pair
NoFallback ==
  /\ pc = "fallback"
  /\ ~FallbackWanted
  /\ ai' = ai + 1
  /\ pc' = "pair"
  /\ UNCHANGED << cfgVars, di, pairVars, outVars, envVars, notBench >>

\* Variant: the row of a run without success carries the measured time.
PythonRun_measured_time ==
  /\ pc = "fallback"
  /\ FallbackWanted
  /\ \E comp \in BenchComps :
       LET res == run_python_algorithm(comp, TIMEOUT)
       IN  /\ MayDraw(comp = NominalComp) /\ Charge(comp = NominalComp)
           /\ trace' = Append(trace, <<"python", res[3]>>)
           /\ IF res[3] = RAISED
                THEN /\ pc' = "crashed"
                     /\ UNCHANGED << ai, impl_used, artifacts, benchmark_results >>
                ELSE /\ pc' = "pair"
                     /\ ai' = ai + 1
                     /\ impl_used' = "Python"
                     /\ IF res[3] = "Success" /\ res[1] = "some"
                          THEN /\ artifacts' = artifacts \cup
                                      { <<"csv", di, ai>>, <<"time", di, ai>> }
                               /\ benchmark_results' =
                                    Append(benchmark_results,
                                           Row(di, ai, res[2] * 1000, res[3], "Python"))
                          ELSE /\ artifacts' = artifacts
                               /\ benchmark_results' =
                                    Append(benchmark_results,
                                           Row(di, ai, res[2] * 1000, res[3], "Python"))
  /\ calls' = calls \cup { <<"python", di, ai>> }
  /\ UNCHANGED << cfgVars, di, success, cur, attempted, written, notBench >>

\* lines 315-346: the reference computation is run and its row recorded
PythonRun ==
  /\ pc = "fallback"
  /\ FallbackWanted
  /\ \E comp \in BenchComps :
       LET res == run_python_algorithm(comp, TIMEOUT)
       IN  /\ MayDraw(comp = NominalComp) /\ Charge(comp = NominalComp)
           /\ trace' = Append(trace, <<"python", res[3]>>)
           /\ IF res[3] = RAISED
                THEN /\ pc' = "crashed"
                     /\ UNCHANGED << ai, impl_used, artifacts, benchmark_results >>
                ELSE /\ pc' = "pair"
                     /\ ai' = ai + 1
                     /\ impl_used' = "Python"
                     /\ IF res[3] = "Success" /\ res[1] = "some"
                          THEN /\ artifacts' = artifacts \cup
                                      { <<"csv", di, ai>>, <<"time", di, ai>> }
                               /\ benchmark_results' =
                                    Append(benchmark_results,
                                           Row(di, ai, res[2] * 1000, res[3], "Python"))
                          ELSE /\ artifacts' = artifacts
                               /\ benchmark_results' =
                                    Append(benchmark_results,
                                           Row(di, ai, -1, res[3], "Python"))
  /\ calls' = calls \cup { <<"python", di, ai>> }
  /\ UNCHANGED << cfgVars, di, success, cur, attempted, written, notBench >>

\* lines 349-351: the table is written
SaveResults ==
  /\ pc = "save"
  /\ written' = TRUE
  /\ pc' = "done"
  /\ UNCHANGED << cfgVars, di, ai, pairVars, benchmark_results, artifacts,
                  calls, attempted, envVars, notBench >>

\* The datasets argument: each file is there or not; a file that is there
\* has one of the edge counts.
DatasetRegistries ==
  { ds \in [ 1..Len(DatasetNames) ->
               [ name : {"sparse", "snap_facebook"}, exists : BOOLEAN,
                 nodes : {0, N_NODES}, edges : EdgeCounts \cup {0} ] ] :
      \A i \in 1..Len(DatasetNames) :
         /\ ds[i].name = DatasetNames[i]
         /\ ds[i].exists => ds[i].nodes = N_NODES /\ ds[i].edges \in EdgeCounts
         /\ ~ds[i].exists => ds[i].nodes = 0 /\ ds[i].edges = 0 }

InitBench ==
  /\ use_cpp \in BOOLEAN
  /\ datasets \in DatasetRegistries
  /\ di = 1
  /\ ai = 1
  /\ pc = "main"
  /\ benchmark_results = << >>
  /\ success = FALSE
  /\ impl_used = "Python"
  /\ trace = << >>
  /\ cur = << 0, 0 >>
  /\ attempted = { }
  /\ artifacts = { }
  /\ calls = { }
  /\ written = FALSE
  /\ faults = 0
  /\ curFaulty = FALSE
  /\ ProbeIdle
  /\ LoopIdle
  /\ ReconIdle
  /\ PyIdle
  /\ CsvIdle
  /\ FbIdle
  /\ PrepIdle
  /\ SkipIdle
  /\ WebIdle
  /\ SirIdle
  /\ ThrIdle

NextBench ==
  \/ MainBuild
  \/ MainNoBuild
  \/ DatasetsDone
  \/ DatasetMissing
  \/ DatasetBegin
  \/ AlgosDone
  \/ SkipPair
  \/ PairBegin
  \/ NativeOff
  \/ NativeMissing
  \/ NativeRun
  \/ NoFallback
  \/ PythonRun
  \/ SaveResults

SpecBench == InitBench /\ [][NextBench]_vars

(***************************************************************************)
(* run_cpp_algorithm called on its own, with the child's life in steps     *)
(***************************************************************************)
ProbeTimeouts == (1..MaxTimeout) \cup { TIMEOUT }

ProbeChildren ==
  { Child("exit", c, d, w) :
      c \in 0..MaxExitCode,
      d \in (0..MaxDuration) \cup { TIMEOUT, TIMEOUT + 1 },
      w \in BOOLEAN }
  \cup { Child("enoent", 0, 0, FALSE), Child("oserror", 0, 0, FALSE) }

\* Where the call ends: with the returned pair, or with the exception.
ProbeEnd(res) ==
  /\ pResult' = res
  /\ pState' = IF res[2] = RAISED THEN "raised" ELSE "returned"

\* line 145: subprocess.run starts the child
ProbeSpawn ==
  /\ pState = "called" /\ pChild.kind = "exit"
  /\ pState' = "running"
  /\ pAlive' = TRUE
  /\ UNCHANGED << pTimeout, pChild, pResult, notProbe >>

\* line 145 raises: nothing was started (lines 161-164)
ProbeSpawnFails ==
  /\ pState = "called" /\ pChild.kind # "exit"
  /\ ProbeEnd(run_cpp_algorithm(pChild, pTimeout))
  /\ UNCHANGED << pTimeout, pChild, pAlive, notProbe >>

\* lines 152-157: the child ended by itself within the timeout
ProbeExit ==
  /\ pState = "running" /\ pChild.dur <= pTimeout
  /\ pAlive' = FALSE
  /\ ProbeEnd(run_cpp_algorithm(pChild, pTimeout))
  /\ UNCHANGED << pTimeout, pChild, notProbe >>

\* lines 159-160: subprocess.run killed the child and raised TimeoutExpired
ProbeExpire ==
  /\ pState = "running" /\ pChild.dur > pTimeout
  /\ pAlive' = FALSE
  /\ ProbeEnd(run_cpp_algorithm(pChild, pTimeout))
  /\ UNCHANGED << pTimeout, pChild, notProbe >>

InitProbe ==
  /\ pTimeout \in ProbeTimeouts
  /\ pChild \in ProbeChildren
  /\ pState = "called"
  /\ pResult = << 0, "" >>
  /\ pAlive = FALSE
  /\ BenchIdle
  /\ LoopIdle
  /\ ReconIdle
  /\ PyIdle
  /\ CsvIdle
  /\ FbIdle
  /\ PrepIdle
  /\ SkipIdle
  /\ WebIdle
  /\ SirIdle
  /\ ThrIdle

NextProbe ==
  \/ ProbeSpawn
  \/ ProbeSpawnFails
  \/ ProbeExit
  \/ ProbeExpire

SpecProbe == InitProbe /\ [][NextProbe]_vars

(***************************************************************************)
(* The benchmark scripts: src/analysis/src/run_centrality_benchmark.py and *)
(* src/benchmarking /scripts/run_community_benchmark.py.  Both are module  *)
(* level loops over graphs and algorithms with no exception handler but    *)
(* the one around the read of community_output.txt.                        *)
(***************************************************************************)
\* community_output.txt is absent; or was left by an earlier run of the
\* script.  Otherwise it is the pair <<g, a>> whose child wrote it.
NoFile == << >>

EarlierRun == << 0, 0 >>

graphs == << "sparse", "dense", "scale_free", "small_world" >>

algorithms(script) ==
  IF script = "centrality"
    THEN << <<"degree">>, <<"closeness">>, <<"betweenness">>,
            <<"eigenvector">>, <<"pagerank">> >>
    ELSE << <<"girvan", "newman">>, <<"label", "propagation">> >>

\* graphs.items(): the loop is exhausted, the results are saved next
LoopGraphsDone ==
  /\ lPc = "graph" /\ lG > Len(graphs)
  /\ lPc' = "save"
  /\ UNCHANGED << lScript, lG, lA, lRows, lAttempted, lFile, lWritten, notLoop >>

\* G = nx.read_edgelist(file, nodetype=int) returns
LoopReadGraph ==
  /\ lPc = "graph" /\ lG <= Len(graphs)
  /\ lA' = 1
  /\ lPc' = "pair"
  /\ UNCHANGED << lScript, lG, lRows, lAttempted, lFile, lWritten, notLoop >>

\* nx.read_edgelist raises (no such file, not an edge list): nothing
\* catches it
LoopReadFails ==
  /\ lPc = "graph" /\ lG <= Len(graphs)
  /\ lPc' = "crashed"
  /\ UNCHANGED << lScript, lG, lA, lRows, lAttempted, lFile, lWritten, notLoop >>

\* algorithms.items(): the inner loop is exhausted
LoopAlgosDone ==
  /\ lPc = "pair" /\ lA > Len(algorithms(lScript))
  /\ lG' = lG + 1
  /\ lPc' = "graph"
  /\ UNCHANGED << lScript, lA, lRows, lAttempted, lFile, lWritten, notLoop >>

\* subprocess.run / subprocess.Popen raises (FileNotFoundError for a missing
\* executable, PermissionError for one that is not executable): nothing
\* catches it
LoopSpawnFails ==
  /\ lPc = "pair" /\ lA <= Len(algorithms(lScript))
  /\ lAttempted' = lAttempted \cup { <<lG, lA>> }
  /\ lPc' = "crashed"
  /\ UNCHANGED << lScript, lG, lA, lRows, lFile, lWritten, notLoop >>

\* run_centrality_benchmark.py lines 37-55: the child ran, with any exit
\* code (subprocess.run without check), and the row is appended
LoopRunCentrality ==
  /\ lPc = "pair" /\ lA <= Len(algorithms(lScript))
  /\ lScript = "centrality"
  /\ lAttempted' = lAttempted \cup { <<lG, lA>> }
  /\ lRows' = Append(lRows, [Graph |-> graphs[lG],
                             Algorithm |-> algorithms(lScript)[lA],
                             source |-> NoFile])
  /\ lA' = lA + 1
  /\ UNCHANGED << lScript, lG, lPc, lFile, lWritten, notLoop >>

\* run_community_benchmark.py lines 29-75: the child ran and did or did not
\* write community_output.txt; the file that is there is read, whoever
\* wrote it, and the row is appended
LoopRunCommunity ==
  /\ lPc = "pair" /\ lA <= Len(algorithms(lScript))
  /\ lScript = "community"
  /\ \E wrote \in BOOLEAN :
       LET file == IF wrote THEN <<lG, lA>> ELSE lFile
       IN  /\ lFile' = file
           /\ lRows' = Append(lRows, [Graph |-> graphs[lG],
                                      Algorithm |-> algorithms(lScript)[lA],
                                      source |-> file])
  /\ lAttempted' = lAttempted \cup { <<lG, lA>> }
  /\ lA' = lA + 1
  /\ UNCHANGED << lScript, lG, lPc, lWritten, notLoop >>

\* run_community_benchmark.py lines 59 and 66: the file that is there does
\* not hold integers (ValueError), or holds the communities of another
\* graph (modularity raises NotAPartition): nothing catches it
LoopCommunityFails ==
  /\ lPc = "pair" /\ lA <= Len(algorithms(lScript))
  /\ lScript = "community"
  /\ \E wrote \in BOOLEAN :
       LET file == IF wrote THEN <<lG, lA>> ELSE lFile
       IN  /\ file # NoFile
           /\ lFile' = file
  /\ lAttempted' = lAttempted \cup { <<lG, lA>> }
  /\ lPc' = "crashed"
  /\ UNCHANGED << lScript, lG, lA, lRows, lWritten, notLoop >>

\* df.to_csv("results/..._results.csv")
LoopSave ==
  /\ lPc = "save"
  /\ lWritten' = TRUE
  /\ lPc' = "done"
  /\ UNCHANGED << lScript, lG, lA, lRows, lAttempted, lFile, notLoop >>

InitLoops ==
  /\ lScript \in {"centrality", "community"}
  /\ lG = 1
  /\ lA = 1
  /\ lPc = "graph"
  /\ lRows = << >>
  /\ lAttempted = { }
  /\ lFile \in {NoFile, EarlierRun}
  /\ lWritten = FALSE
  /\ BenchIdle
  /\ ProbeIdle
  /\ ReconIdle
  /\ PyIdle
  /\ CsvIdle
  /\ FbIdle
  /\ PrepIdle
  /\ SkipIdle
  /\ WebIdle
  /\ SirIdle
  /\ ThrIdle

NextLoops ==
  \/ LoopGraphsDone
  \/ LoopReadGraph
  \/ LoopReadFails
  \/ LoopAlgosDone
  \/ LoopSpawnFails
  \/ LoopRunCentrality
  \/ LoopRunCommunity
  \/ LoopCommunityFails
  \/ LoopSave

SpecLoops == InitLoops /\ [][NextLoops]_vars


(***************************************************************************)
(* run_cpp_algorithms(edges_file, output_dir, cpp_dir)                     *)
(* src/Algorithms/Centrality/run_all_algos.py                              *)
(*                                                                         *)
(* A path is [dir, stem, kind]: dir/{shortname}_{stem}.csv for kind "csv"  *)
(* and dir/{shortname}_{stem}_time.txt for kind "time", where stem is      *)
(* "base" (base_name, the dataset) or "centrality".  shortname is the      *)
(* algorithm in hand; every path the loop body touches holds it, so fs     *)
(* holds the files of the algorithm in hand only.  A file's content is     *)
(* <<path, age>>: where it was first put, and "old" (there before the      *)
(* call) or "new" (written by the child of this iteration).                *)
(***************************************************************************)
algos ==
  << [exe |-> <<"betweenness", "centrality">>, shortname |-> "betweenness"],
     [exe |-> <<"closeness", "centrality">>,   shortname |-> "closeness"],
     [exe |-> <<"degree", "centrality">>,      shortname |-> "degree"],
     [exe |-> <<"eigenvector", "centrality">>, shortname |-> "eigenvector"],
     [exe |-> <<"pagerank">>,                  shortname |-> "pagerank"] >>

\* os.path.exists(p)
Exists(f, p) == f[p] # Absent

\* lines 91-92
output_csv == Path(output_dir, "base", "csv")

time_file == Path(output_dir, "base", "time")

\* Variant: the dataset-named file of cpp_dir before the default-named one.
candidates_swapped ==
  << Path(output_dir, "base", "csv"),
     Path(cpp_dir, "base", "csv"),
     Path(cpp_dir, "centrality", "csv") >>

\* Variant: the canonical path is looked at last.
candidates_canonical_last ==
  << Path(cpp_dir, "centrality", "csv"),
     Path(cpp_dir, "base", "csv"),
     Path(output_dir, "base", "csv") >>

\* lines 107-111
candidates ==
  << Path(output_dir, "base", "csv"),
     Path(cpp_dir, "centrality", "csv"),
     Path(cpp_dir, "base", "csv") >>

\* lines 114-118
time_candidates ==
  << Path(output_dir, "base", "time"),
     Path(cpp_dir, "centrality", "time"),
     Path(cpp_dir, "base", "time") >>

\* lines 123 and 126
fallback_csv == Path(cpp_dir, "centrality", "csv")

fallback_time == Path(cpp_dir, "centrality", "time")

\* next((p for p in cands if os.path.exists(p)), None)
RECURSIVE FirstExisting(_, _)
FirstExisting(f, cands) ==
  IF cands = << >> THEN NoPath
  ELSE IF Exists(f, Head(cands)) THEN Head(cands)
  ELSE FirstExisting(f, Tail(cands))

\* Variant: without the preference of lines 122-125.
LocateCsv_no_preference(f, r) == FirstExisting(f, candidates)

\* lines 112 and 122-125
LocateCsv(f, r) ==
  IF r /\ Exists(f, fallback_csv) THEN fallback_csv
  ELSE FirstExisting(f, candidates)

\* lines 119 and 126-128
LocateTime(f, r) ==
  IF r /\ Exists(f, fallback_time) THEN fallback_time
  ELSE FirstExisting(f, time_candidates)

\* The paths of the algorithm in hand.
ReconPaths ==
  { candidates[i] : i \in 1..3 } \cup { time_candidates[i] : i \in 1..3 }

\* Where a child may leave its result: the output path it is given, or its
\* own default place.
ChildWritable ==
  { output_csv, fallback_csv, time_file, fallback_time }

\* Variant: the source is copied to the canonical path and left in place.
Move_copy(f, src, dst, failed) ==
  IF src = NoPath \/ src = dst \/ failed THEN f
  ELSE [f EXCEPT ![dst] = f[src]]

\* os.replace(src, dst) when the two differ (lines 132-133, 141-142);
\* failed: os.replace raised and the handler printed the warning.
Move(f, src, dst, failed) ==
  IF src = NoPath \/ src = dst \/ failed THEN f
  ELSE [f EXCEPT ![dst] = f[src], ![src] = Absent]

\* the loop is exhausted: return results
ReconDone ==
  /\ rPc = "begin" /\ rI > Len(algos)
  /\ rPc' = "done"
  /\ UNCHANGED << output_dir, cpp_dir, rI, fs, exe_ok, spawned, ran, src_csv,
                  src_time, results, busy, notRecon >>

\* lines 89-97: the next algorithm; what is on disk for it shows
ReconBegin ==
  /\ rPc = "begin" /\ rI <= Len(algos)
  /\ \E old \in SUBSET ReconPaths, exe \in BOOLEAN :
       LET quiet == (old = { } /\ ~exe)
       IN  /\ quiet \/ busy < MaxBusyAlgos
           /\ busy' = IF quiet THEN busy ELSE busy + 1
           /\ exe_ok' = exe
           /\ fs' = [ p \in ReconPaths |->
                        IF p \in old THEN << p, "old" >> ELSE Absent ]
  /\ ran' = FALSE
  /\ spawned' = FALSE
  /\ src_csv' = NoPath
  /\ src_time' = NoPath
  /\ rPc' = "exec"
  /\ UNCHANGED << output_dir, cpp_dir, rI, results, notRecon >>

\* line 98 is false: nothing is run
ReconExeMissing ==
  /\ rPc = "exec" /\ ~exe_ok
  /\ rPc' = "locate"
  /\ UNCHANGED << output_dir, cpp_dir, rI, fs, exe_ok, spawned, ran, src_csv,
                  src_time, results, busy, notRecon >>

\* lines 98-104: the executable is run; ran is set unless it exits non-zero
ReconRun ==
  /\ rPc = "exec" /\ exe_ok
  /\ \E code \in {0, 1}, w \in SUBSET ChildWritable :
       /\ fs' = [ p \in ReconPaths |->
                    IF p \in w THEN << p, "new" >> ELSE fs[p] ]
       /\ ran' = (code = 0)
  /\ spawned' = TRUE
  /\ rPc' = "locate"
  /\ UNCHANGED << output_dir, cpp_dir, rI, exe_ok, src_csv, src_time, results,
                  busy, notRecon >>

\* lines 106-128: the artifact and the timing file are looked for
ReconLocate ==
  /\ rPc = "locate"
  /\ src_csv' = LocateCsv(fs, ran)
  /\ src_time' = LocateTime(fs, ran)
  /\ rPc' = "move"
  /\ UNCHANGED << output_dir, cpp_dir, rI, fs, exe_ok, spawned, ran, results,
                  busy, notRecon >>

\* lines 130-146: both are moved to their canonical paths; a move that
\* raises leaves the files as they are
ReconMove ==
  /\ rPc = "move"
  /\ \E csvFails \in BOOLEAN, timeFails \in BOOLEAN :
       /\ csvFails => (src_csv # NoPath /\ src_csv # output_csv)
       /\ timeFails => (src_time # NoPath /\ src_time # time_file)
       /\ fs' = Move(Move(fs, src_csv, output_csv, csvFails),
                     src_time, time_file, timeFails)
  /\ rPc' = "record"
  /\ UNCHANGED << output_dir, cpp_dir, rI, exe_ok, spawned, ran, src_csv,
                  src_time, results, busy, notRecon >>

\* lines 106-146 once more for the algorithm in hand, before its entry is
\* made: in the same call, or in a later call that does not run the binary
ReconAgain ==
  /\ rPc = "record"
  /\ \E r2 \in {ran, FALSE}, csvFails \in BOOLEAN, timeFails \in BOOLEAN :
       LET c == LocateCsv(fs, r2)
           t == LocateTime(fs, r2)
       IN  /\ csvFails => (c # NoPath /\ c # output_csv)
           /\ timeFails => (t # NoPath /\ t # time_file)
           /\ ran' = r2
           /\ src_csv' = c
           /\ src_time' = t
           /\ fs' = Move(Move(fs, c, output_csv, csvFails),
                         t, time_file, timeFails)
  /\ rPc' = "again"
  /\ UNCHANGED << output_dir, cpp_dir, rI, exe_ok, spawned, results, busy,
                  notRecon >>

\* the repeated step is over; line 148 is next
ReconAgainEnd ==
  /\ rPc = "again"
  /\ rPc' = "record"
  /\ UNCHANGED << output_dir, cpp_dir, rI, fs, exe_ok, spawned, ran, src_csv,
                  src_time, results, busy, notRecon >>

\* Variant: the entry is made whenever a source was found, moved or not.
ReconRecord_found ==
  /\ rPc = "record"
  /\ results' =
       IF src_csv # NoPath
         THEN results \cup
                { [ shortname       |-> algos[rI].shortname,
                    centrality_file |-> output_csv,
                    time_file       |-> IF Exists(fs, time_file)
                                          THEN time_file ELSE NoPath ] }
         ELSE results
  /\ rI' = rI + 1
  /\ rPc' = "begin"
  /\ UNCHANGED << output_dir, cpp_dir, fs, exe_ok, spawned, ran, src_csv,
                  src_time, busy, notRecon >>

\* lines 148-155: the algorithm is entered in results if its CSV is there
ReconRecord ==
  /\ rPc = "record"
  /\ results' =
       IF Exists(fs, output_csv)
         THEN results \cup
                { [ shortname       |-> algos[rI].shortname,
                    centrality_file |-> output_csv,
                    time_file       |-> IF Exists(fs, time_file)
                                          THEN time_file ELSE NoPath ] }
         ELSE results
  /\ rI' = rI + 1
  /\ rPc' = "begin"
  /\ UNCHANGED << output_dir, cpp_dir, fs, exe_ok, spawned, ran, src_csv,
                  src_time, busy, notRecon >>

\* output_dir and cpp_dir may be one directory
InitRecon ==
  /\ cpp_dir = "CPP"
  /\ output_dir \in {"output", "CPP"}
  /\ rI = 1
  /\ rPc = "begin"
  /\ fs = [ p \in ReconPaths |-> Absent ]
  /\ exe_ok = FALSE
  /\ spawned = FALSE
  /\ ran = FALSE
  /\ src_csv = NoPath
  /\ src_time = NoPath
  /\ results = { }
  /\ busy = 0
  /\ BenchIdle
  /\ ProbeIdle
  /\ LoopIdle
  /\ PyIdle
  /\ CsvIdle
  /\ FbIdle
  /\ PrepIdle
  /\ SkipIdle
  /\ WebIdle
  /\ SirIdle
  /\ ThrIdle

NextRecon ==
  \/ ReconDone
  \/ ReconBegin
  \/ ReconExeMissing
  \/ ReconRun
  \/ ReconLocate
  \/ ReconMove
  \/ ReconAgain
  \/ ReconAgainEnd
  \/ ReconRecord

SpecRecon == InitRecon /\ [][NextRecon]_vars

(***************************************************************************)
(* The two functions that test for the native executable before running    *)
(* it: one call of either.                                                 *)
(***************************************************************************)
InitNative == InitBench \/ InitRecon

NextNative == NextBench \/ NextRecon

SpecNative == InitNative /\ [][NextNative]_vars

(***************************************************************************)
(* run_python_algorithms(edges_file, output_dir)                           *)
(* src/Algorithms/Centrality/run_all_algos.py                              *)
(***************************************************************************)
\* lines 171-177: the keys of algo_funcs, in insertion order
algo_funcs ==
  << "betweenness", "closeness", "degree", "eigenvector", "pagerank" >>

\* line 169: nx.read_edgelist returns G
PyLoad ==
  /\ yPc = "load"
  /\ yPc' = "compute"
  /\ UNCHANGED << yI, yVals, yLog, yResults, yFiles, notPy >>

\* line 169: nx.read_edgelist raises; nothing catches it
PyLoadFails ==
  /\ yPc = "load"
  /\ yPc' = "crashed"
  /\ UNCHANGED << yI, yVals, yLog, yResults, yFiles, notPy >>

\* the loop is exhausted: return results
PyDone ==
  /\ yPc = "compute" /\ yI > Len(algo_funcs)
  /\ yPc' = "done"
  /\ UNCHANGED << yI, yVals, yLog, yResults, yFiles, notPy >>

\* Variant: without the handler of lines 191-199.
PyCompute_propagates ==
  /\ yPc = "compute" /\ yI <= Len(algo_funcs)
  /\ \E raises \in BOOLEAN :
       /\ raises => algo_funcs[yI] # "degree"
       /\ yVals' = IF raises THEN "none" ELSE "own"
       /\ yPc' = IF raises THEN "crashed" ELSE "write"
       /\ yLog' = Append(yLog, [shortname |-> algo_funcs[yI], raised |-> raises,
                                vals |-> yVals', wrote |-> FALSE])
  /\ UNCHANGED << yI, yResults, yFiles, notPy >>

\* lines 185-199: vals = func(G), or nx.degree_centrality(G) when func
\* raises.  nx.degree_centrality itself returns for every graph, so the
\* function of "degree" does not raise and the handler's call does not.
PyCompute ==
  /\ yPc = "compute" /\ yI <= Len(algo_funcs)
  /\ \E raises \in BOOLEAN :
       /\ raises => algo_funcs[yI] # "degree"
       /\ yVals' = IF raises THEN "degree" ELSE "own"
       /\ yLog' = Append(yLog, [shortname |-> algo_funcs[yI], raised |-> raises,
                                vals |-> yVals', wrote |-> FALSE])
  /\ yPc' = "write"
  /\ UNCHANGED << yI, yResults, yFiles, notPy >>

\* lines 201-218: the CSV, then the timing file, then the entry; an
\* exception of either open or write is caught and no entry is made
PyWrite ==
  /\ yPc = "write"
  /\ \E outcome \in {"ok", "csv fails", "time fails"} :
       /\ yFiles' = yFiles \cup
            CASE outcome = "ok" ->
                   { <<algo_funcs[yI], "csv">>, <<algo_funcs[yI], "time">> }
              [] outcome = "time fails" -> { <<algo_funcs[yI], "csv">> }
              [] OTHER -> { }
       /\ yResults' =
            IF outcome = "ok"
              THEN yResults \cup
                     { [ shortname       |-> algo_funcs[yI],
                         centrality_file |-> <<algo_funcs[yI], "csv">>,
                         time_file       |-> <<algo_funcs[yI], "time">> ] }
              ELSE yResults
       /\ yLog' = [yLog EXCEPT ![Len(yLog)].wrote = (outcome = "ok")]
  /\ yI' = yI + 1
  /\ yPc' = "compute"
  /\ UNCHANGED << yVals, notPy >>

InitPy ==
  /\ yI = 1
  /\ yPc = "load"
  /\ yVals = "none"
  /\ yLog = << >>
  /\ yResults = { }
  /\ yFiles = { }
  /\ BenchIdle
  /\ ProbeIdle
  /\ LoopIdle
  /\ ReconIdle
  /\ CsvIdle
  /\ FbIdle
  /\ PrepIdle
  /\ SkipIdle
  /\ WebIdle
  /\ SirIdle
  /\ ThrIdle

NextPy ==
  \/ PyLoad
  \/ PyLoadFails
  \/ PyDone
  \/ PyCompute
  \/ PyWrite

SpecPy == InitPy /\ [][NextPy]_vars

(***************************************************************************)
(* The centrality CSV: written by run_python_algorithms (lines 201-206),   *)
(* read by read_centrality_csv (lines 222-241).                            *)
(*                                                                         *)
(* A float is [neg, digits, decpt]: the digits of its shortest decimal     *)
(* form, first and last not 0, and the place of the decimal point, the     *)
(* value being 0.DIGITS * 10^decpt; zero is digits <<0>>, decpt 1.  Text   *)
(* is a sequence of one-character strings.                                 *)
(***************************************************************************)
DigitChars == << "0", "1", "2", "3", "4", "5", "6", "7", "8", "9" >>

IsDigit(c) == \E d \in 1..10 : DigitChars[d] = c

DigitOf(c) == (CHOOSE d \in 1..10 : DigitChars[d] = c) - 1

Float(neg, digits, decpt) == [neg |-> neg, digits |-> digits, decpt |-> decpt]

Zeros(n) == [i \in 1..n |-> "0"]

DigitText(digits) == [i \in 1..Len(digits) |-> DigitChars[digits[i] + 1]]

\* str(n) of a non-negative int
RECURSIVE Decimal(_)
Decimal(n) ==
  IF n < 10 THEN << DigitChars[n + 1] >>
  ELSE Append(Decimal(n \div 10), DigitChars[(n % 10) + 1])

\* f"{node}" of an int
FormatInt(n) == IF n < 0 THEN << "-" >> \o Decimal(-n) ELSE Decimal(n)

\* the exponent of repr: a sign and at least two digits
FormatExponent(e) ==
  << "e", IF e < 0 THEN "-" ELSE "+" >>
  \o (LET a == IF e < 0 THEN -e ELSE e
      IN  IF a < 10 THEN << "0" >> \o Decimal(a) ELSE Decimal(a))

\* Variant: f"{v:.2f}" with the further digits cut off.
FormatFloat_two_places(v) ==
  LET n  == Len(v.digits)
      ds == DigitText(v.digits)
      whole == IF v.decpt <= 0 THEN << "0" >>
               ELSE IF v.decpt >= n THEN ds \o Zeros(v.decpt - n)
               ELSE SubSeq(ds, 1, v.decpt)
      frac  == IF v.decpt <= 0 THEN Zeros(-v.decpt) \o ds
               ELSE IF v.decpt >= n THEN << >>
               ELSE SubSeq(ds, v.decpt + 1, n)
      two   == SubSeq(frac \o << "0", "0" >>, 1, 2)
  IN  (IF v.neg THEN << "-" >> ELSE << >>) \o whole \o << "." >> \o two

\* f"{v}" of a float: repr, the shortest digits, in exponent form when the
\* decimal point is more than 16 places right or more than 3 places left
\* of the first digit
FormatFloat(v) ==
  LET n  == Len(v.digits)
      ds == DigitText(v.digits)
      body ==
        IF v.decpt > 16 \/ v.decpt < -3
          THEN << ds[1] >>
               \o (IF n > 1 THEN << "." >> \o SubSeq(ds, 2, n) ELSE << >>)
               \o FormatExponent(v.decpt - 1)
        ELSE IF v.decpt <= 0
          THEN << "0", "." >> \o Zeros(-v.decpt) \o ds
        ELSE IF v.decpt >= n
          THEN ds \o Zeros(v.decpt - n) \o << ".", "0" >>
        ELSE SubSeq(ds, 1, v.decpt) \o << "." >> \o SubSeq(ds, v.decpt + 1, n)
  IN  (IF v.neg THEN << "-" >> ELSE << >>) \o body

\* The place of the first c in text, 0 if there is none.
IndexOf(text, c) ==
  IF \E i \in 1..Len(text) : text[i] = c
    THEN CHOOSE i \in 1..Len(text) :
           text[i] = c /\ \A j \in 1..(i - 1) : text[j] # c
    ELSE 0

AllDigits(text) == \A i \in 1..Len(text) : IsDigit(text[i])

\* The number a text of digits stands for.
RECURSIVE Number(_)
Number(text) ==
  IF text = << >> THEN 0
  ELSE 10 * Number(SubSeq(text, 1, Len(text) - 1)) + DigitOf(text[Len(text)])

Unsigned(text) ==
  IF text # << >> /\ text[1] \in {"-", "+"} THEN Tail(text) ELSE text

Negative(text) == text # << >> /\ text[1] = "-"

\* int(text): [ok, val]; ok is FALSE for ValueError
ParseInt(text) ==
  LET u == Unsigned(text)
  IN  IF u = << >> \/ ~AllDigits(u) THEN [ok |-> FALSE, val |-> 0]
      ELSE [ok |-> TRUE,
            val |-> IF Negative(text) THEN -Number(u) ELSE Number(u)]

\* digits without the zeros at their front and end, and the decimal point
\* moved accordingly
RECURSIVE Normal(_, _, _)
Normal(neg, digits, decpt) ==
  IF digits = << >> THEN Float(FALSE, << 0 >>, 1)
  ELSE IF Head(digits) = 0 THEN Normal(neg, Tail(digits), decpt - 1)
  ELSE IF digits[Len(digits)] = 0
    THEN Normal(neg, SubSeq(digits, 1, Len(digits) - 1), decpt)
  ELSE Float(neg, digits, decpt)

\* float(text): [ok, val]; ok is FALSE for ValueError
ParseFloat(text) ==
  LET u    == Unsigned(text)
      ePos == IndexOf(u, "e")
      mant == IF ePos = 0 THEN u ELSE SubSeq(u, 1, ePos - 1)
      expo == IF ePos = 0 THEN [ok |-> TRUE, val |-> 0]
              ELSE ParseInt(SubSeq(u, ePos + 1, Len(u)))
      dot  == IndexOf(mant, ".")
      whole == IF dot = 0 THEN mant ELSE SubSeq(mant, 1, dot - 1)
      frac  == IF dot = 0 THEN << >> ELSE SubSeq(mant, dot + 1, Len(mant))
      all   == whole \o frac
  IN  IF all = << >> \/ ~AllDigits(all) \/ ~expo.ok
        THEN [ok |-> FALSE, val |-> Float(FALSE, << 0 >>, 1)]
      ELSE [ok |-> TRUE,
            val |-> Normal(Negative(text),
                           [i \in 1..Len(all) |-> DigitOf(all[i])],
                           Len(whole) + expo.val)]

\* line.split(',')
RECURSIVE Split(_)
Split(text) ==
  LET i == IndexOf(text, ",")
  IN  IF i = 0 THEN << text >>
      ELSE << SubSeq(text, 1, i - 1) >> \o Split(SubSeq(text, i + 1, Len(text)))

\* sorted(keys, key=int)
RECURSIVE Sorted(_)
Sorted(keys) ==
  IF keys = { } THEN << >>
  ELSE LET least == CHOOSE k \in keys : \A j \in keys : k <= j
       IN  << least >> \o Sorted(keys \ {least})

Header == << "n", "o", "d", "e", ",", "v", "a", "l", "u", "e" >>

\* The place of a character in the order of text: "-" is before the digits.
CharRank(c) == IF c = "-" THEN -1 ELSE DigitOf(c)

\* Python's s < t on text.
RECURSIVE TextBefore(_, _)
TextBefore(s, t) ==
  IF t = << >> THEN FALSE
  ELSE IF s = << >> THEN TRUE
  ELSE IF Head(s) # Head(t) THEN CharRank(Head(s)) < CharRank(Head(t))
  ELSE TextBefore(Tail(s), Tail(t))

\* sorted(keys, key=str)
RECURSIVE SortedAsText(_)
SortedAsText(keys) ==
  IF keys = { } THEN << >>
  ELSE LET least == CHOOSE k \in keys :
                      \A j \in keys \ {k} : TextBefore(FormatInt(k), FormatInt(j))
       IN  << least >> \o SortedAsText(keys \ {least})

\* Variant: the nodes in the order of their text, "12" before "3".
WriteCsv_text_order(vals) ==
  LET keys == SortedAsText(DOMAIN vals)
  IN  << Header >>
      \o [i \in 1..Len(keys) |->
            FormatInt(keys[i]) \o << "," >> \o FormatFloat(vals[keys[i]])]

\* lines 203-206: the header, then one line "node,value" per node in the
\* order of the node ids
WriteCsv(vals) ==
  LET keys == Sorted(DOMAIN vals)
  IN  << Header >>
      \o [i \in 1..Len(keys) |->
            FormatInt(keys[i]) \o << "," >> \o FormatFloat(vals[keys[i]])]

\* save_centrality_results (src/run_scripts/run_all_algos.py), when no
\* write fails: the header, then f"{node},{values[node]}" for the nodes of
\* sorted(values.keys()), which are ints
save_centrality_results(values) ==
  LET keys == Sorted(DOMAIN values)
  IN  << Header >>
      \o [i \in 1..Len(keys) |->
            FormatInt(keys[i]) \o << "," >> \o FormatFloat(values[keys[i]])]

\* lines 230-237: the lines after the header; a line of fewer than two
\* parts, or one that int() or float() rejects, is passed over
RECURSIVE ReadLines(_, _)
ReadLines(lines, values) ==
  IF lines = << >> THEN values
  ELSE LET parts == Split(Head(lines))
           node  == ParseInt(parts[1])
           val   == IF Len(parts) < 2 THEN [ok |-> FALSE] ELSE ParseFloat(parts[2])
       IN  IF Len(parts) < 2 \/ ~node.ok \/ ~val.ok
             THEN ReadLines(Tail(lines), values)
           ELSE ReadLines(Tail(lines),
                          [k \in DOMAIN values \cup {node.val} |->
                             IF k = node.val THEN val.val ELSE values[k]])

\* read_centrality_csv(file_path) of a file that exists: next(f) passes
\* over the first line
read_centrality_csv(file) ==
  IF file = << >> THEN << >> ELSE ReadLines(Tail(file), << >>)

\* Node ids and values the mappings are made of.
NodeIds == { -1, 0, 3, MaxNodeId }

FloatSamples ==
  { Float(FALSE, << 0 >>, 1) }
  \cup { Float(neg, ds, dp) :
           neg \in BOOLEAN,
           ds \in { << 1 >>, << 1, 2, 5 >> },
           dp \in { -4, -3, 0, 1, 3, 16, 17 } }

Mappings ==
  UNION { [ids -> FloatSamples] :
            ids \in { d \in SUBSET NodeIds : Cardinality(d) <= MaxEntries } }

CsvWrite ==
  /\ cPc = "write"
  /\ cFile' \in { WriteCsv(cVals), save_centrality_results(cVals) }
  /\ cPc' = "read"
  /\ UNCHANGED << cVals, cRead, notCsv >>

CsvRead ==
  /\ cPc = "read"
  /\ cRead' = read_centrality_csv(cFile)
  /\ cPc' = "done"
  /\ UNCHANGED << cVals, cFile, notCsv >>

InitCsv ==
  /\ cVals \in Mappings
  /\ cFile = << >>
  /\ cRead = << >>
  /\ cPc = "write"
  /\ BenchIdle
  /\ ProbeIdle
  /\ LoopIdle
  /\ ReconIdle
  /\ PyIdle
  /\ FbIdle
  /\ PrepIdle
  /\ SkipIdle
  /\ WebIdle
  /\ SirIdle
  /\ ThrIdle

NextCsv ==
  \/ CsvWrite
  \/ CsvRead

SpecCsv == InitCsv /\ [][NextCsv]_vars

(***************************************************************************)
(* src/run_facebook_analysis.py: analyze_facebook_dataset() and            *)
(* generate_report(results), on a dataset file that exists                 *)
(***************************************************************************)
\* CENTRALITY_ALGOS, COMMUNITY_ALGOS, SHORTEST_PATH_ALGOS, SCC_ALGOS in the
\* order analyze_facebook_dataset goes through them.  runner: the function
\* that runs the algorithm; "none" for the one that is skipped.
FbAlgos ==
  << [name |-> "Degree Centrality",      runner |-> "run_algorithm",   compiled |-> FALSE],
     [name |-> "Closeness Centrality",   runner |-> "run_algorithm",   compiled |-> FALSE],
     [name |-> "Betweenness Centrality", runner |-> "run_algorithm",   compiled |-> FALSE],
     [name |-> "Eigenvector Centrality", runner |-> "run_algorithm",   compiled |-> FALSE],
     [name |-> "PageRank",               runner |-> "run_algorithm",   compiled |-> FALSE],
     [name |-> "Label Propagation",      runner |-> "run_label_propagation", compiled |-> FALSE],
     [name |-> "Girvan-Newman",          runner |-> "none",            compiled |-> FALSE],
     [name |-> "Bellman-Ford",           runner |-> "run_algorithm_with_source", compiled |-> TRUE],
     [name |-> "Dijkstra",               runner |-> "run_algorithm_with_source", compiled |-> TRUE],
     [name |-> "Kosaraju SCC",           runner |-> "run_algorithm_simple", compiled |-> TRUE],
     [name |-> "Tarjan SCC",             runner |-> "run_algorithm_simple", compiled |-> TRUE] >>

\* What happens when an executable is to be run.
FbOutcomes == {"success", "missing", "failed", "timeout", "error"}

\* What the runner returns: the status of the dict, or "None".
\* run_algorithm (lines 283-356) returns a dict unless the executable is
\* missing; the three others (lines 129-281) return one for success only.
FbReturn(runner, outcome) ==
  IF outcome = "success" THEN "success"
  ELSE IF runner = "run_algorithm" /\ outcome # "missing" THEN outcome
  ELSE "None"

\* if result: all_results.append(result)
FbAppend(name, status) ==
  IF status = "None" THEN all_results
  ELSE Append(all_results, [algorithm |-> name, status |-> status])

FbMayFail == fFaults < MaxFbFaults

\* lines 371-375 and 381-391: an algorithm that is not compiled first
FbRun ==
  /\ fPc = "run" /\ fI <= Len(FbAlgos)
  /\ FbAlgos[fI].runner # "none" /\ ~FbAlgos[fI].compiled
  /\ \E outcome \in FbOutcomes :
       /\ outcome = "success" \/ FbMayFail
       /\ fFaults' = IF outcome = "success" THEN fFaults ELSE fFaults + 1
       /\ fAttempts' = Append(fAttempts, [algorithm |-> FbAlgos[fI].name,
                                         outcome |-> outcome])
       /\ all_results' = FbAppend(FbAlgos[fI].name,
                                  FbReturn(FbAlgos[fI].runner, outcome))
  /\ fI' = fI + 1
  /\ UNCHANGED << fPc, fCsv, fListed, notFb >>

\* lines 383-385: Girvan-Newman is passed over with a message
FbSkip ==
  /\ fPc = "run" /\ fI <= Len(FbAlgos)
  /\ FbAlgos[fI].runner = "none"
  /\ fAttempts' = Append(fAttempts, [algorithm |-> FbAlgos[fI].name,
                                    outcome |-> "skipped"])
  /\ fI' = fI + 1
  /\ UNCHANGED << fPc, all_results, fCsv, fListed, fFaults, notFb >>

\* lines 396-415 and 419-438: the source file is not there: nothing is done
FbNoSource ==
  /\ fPc = "run" /\ fI <= Len(FbAlgos)
  /\ FbAlgos[fI].compiled
  /\ FbMayFail
  /\ fFaults' = fFaults + 1
  /\ fI' = fI + 1
  /\ UNCHANGED << fPc, fAttempts, all_results, fCsv, fListed, notFb >>

\* ... g++ exits non-zero: CalledProcessError is caught and a message
\* printed
FbCompileFails ==
  /\ fPc = "run" /\ fI <= Len(FbAlgos)
  /\ FbAlgos[fI].compiled
  /\ FbMayFail
  /\ fFaults' = fFaults + 1
  /\ fAttempts' = Append(fAttempts, [algorithm |-> FbAlgos[fI].name,
                                    outcome |-> "compilation failed"])
  /\ fI' = fI + 1
  /\ UNCHANGED << fPc, all_results, fCsv, fListed, notFb >>

\* ... g++ cannot be started: the exception of subprocess.run is not a
\* CalledProcessError and nothing catches it
FbCompilerMissing ==
  /\ fPc = "run" /\ fI <= Len(FbAlgos)
  /\ FbAlgos[fI].compiled
  /\ FbMayFail
  /\ fFaults' = fFaults + 1
  /\ fPc' = "crashed"
  /\ UNCHANGED << fI, fAttempts, all_results, fCsv, fListed, notFb >>

\* ... it is compiled and run
FbCompileAndRun ==
  /\ fPc = "run" /\ fI <= Len(FbAlgos)
  /\ FbAlgos[fI].compiled
  /\ \E outcome \in FbOutcomes \ {"missing"} :
       /\ outcome = "success" \/ FbMayFail
       /\ fFaults' = IF outcome = "success" THEN fFaults ELSE fFaults + 1
       /\ fAttempts' = Append(fAttempts, [algorithm |-> FbAlgos[fI].name,
                                         outcome |-> outcome])
       /\ all_results' = FbAppend(FbAlgos[fI].name,
                                  FbReturn(FbAlgos[fI].runner, outcome))
  /\ fI' = fI + 1
  /\ UNCHANGED << fPc, fCsv, fListed, notFb >>

\* line 440: return all_results
FbAnalysed ==
  /\ fPc = "run" /\ fI > Len(FbAlgos)
  /\ fPc' = "report"
  /\ UNCHANGED << fI, fAttempts, all_results, fCsv, fListed, fFaults, notFb >>

\* generate_report, lines 455-463 and 516-521: the CSV gets every result
\* if one of them is a success and nothing otherwise; the report lists the
\* results that are not a success
FbReport ==
  /\ fPc = "report"
  /\ fCsv' = IF \E i \in 1..Len(all_results) : all_results[i].status = "success"
               THEN all_results ELSE << >>
  /\ fListed' = { all_results[i].algorithm :
                    i \in { j \in 1..Len(all_results) :
                              all_results[j].status # "success" } }
  /\ fPc' = "done"
  /\ UNCHANGED << fI, fAttempts, all_results, fFaults, notFb >>

InitFb ==
  /\ fI = 1
  /\ fPc = "run"
  /\ fAttempts = << >>
  /\ all_results = << >>
  /\ fCsv = << >>
  /\ fListed = { }
  /\ fFaults = 0
  /\ BenchIdle
  /\ ProbeIdle
  /\ LoopIdle
  /\ ReconIdle
  /\ PyIdle
  /\ CsvIdle
  /\ PrepIdle
  /\ SkipIdle
  /\ WebIdle
  /\ SirIdle
  /\ ThrIdle

NextFb ==
  \/ FbRun
  \/ FbSkip
  \/ FbNoSource
  \/ FbCompileFails
  \/ FbCompilerMissing
  \/ FbCompileAndRun
  \/ FbAnalysed
  \/ FbReport

SpecFb == InitFb /\ [][NextFb]_vars

(***************************************************************************)
(* Dataset preparation of main: the synthetic datasets and the flags       *)
(* --skip-generate and --snap-only.  The edge-list file of a dataset       *)
(* stands for the pair of files save_graph_to_text_files writes.           *)
(***************************************************************************)
\* expected_names (Centrality main) and the list of line 468, in order.
synthetic == << "sparse", "dense", "scale_free", "small_world" >>

Synthetic == { synthetic[i] : i \in 1..Len(synthetic) }

OnDisk(d) == { k \in Synthetic : d[k] # Absent }

\* Centrality main lines 443-447: the files already there are collected.
PrepCollect ==
  /\ dPc = "start" /\ dScript = "centrality"
  /\ edges_files' = OnDisk(disk)
  /\ dPc' = "decide"
  /\ UNCHANGED << dScript, skip_generate, snap_only, snap_datasets, disk, disk0,
                  all_datasets, gI, notPrep >>

\* Centrality main lines 449-453: --skip-generate, nothing is created.
PrepSkipGenerate ==
  /\ dPc = "decide" /\ skip_generate
  /\ dPc' = "run"
  /\ UNCHANGED << dScript, skip_generate, snap_only, snap_datasets, disk, disk0,
                  edges_files, all_datasets, gI, notPrep >>

\* Centrality main lines 456-457: all four files are there.
PrepAllPresent ==
  /\ dPc = "decide" /\ ~skip_generate
  /\ Cardinality(edges_files) = Len(synthetic)
  /\ dPc' = "run"
  /\ UNCHANGED << dScript, skip_generate, snap_only, snap_datasets, disk, disk0,
                  edges_files, all_datasets, gI, notPrep >>

\* Centrality main lines 458-460: a file is missing, all are generated.
PrepGenerateAll ==
  /\ dPc = "decide" /\ ~skip_generate
  /\ Cardinality(edges_files) # Len(synthetic)
  /\ gI' = 1
  /\ dPc' = "generate"
  /\ UNCHANGED << dScript, skip_generate, snap_only, snap_datasets, disk, disk0,
                  edges_files, all_datasets, notPrep >>

\* Benchmark main line 464 is false: --snap-only.
MainSnapOnly ==
  /\ dPc = "start" /\ dScript = "bench"
  /\ snap_only
  /\ dPc' = "snap"
  /\ UNCHANGED << dScript, skip_generate, snap_only, snap_datasets, disk, disk0,
                  edges_files, all_datasets, gI, notPrep >>

\* Benchmark main lines 465-470: --skip-generate, the files there are taken.
MainSkipGenerate ==
  /\ dPc = "start" /\ dScript = "bench"
  /\ ~snap_only /\ skip_generate
  /\ all_datasets' = OnDisk(disk)
  /\ dPc' = "snap"
  /\ UNCHANGED << dScript, skip_generate, snap_only, snap_datasets, disk, disk0,
                  edges_files, gI, notPrep >>

\* Benchmark main lines 471-473: the graphs are generated.
MainGenerate ==
  /\ dPc = "start" /\ dScript = "bench"
  /\ ~snap_only /\ ~skip_generate
  /\ gI' = 1
  /\ dPc' = "generate"
  /\ UNCHANGED << dScript, skip_generate, snap_only, snap_datasets, disk, disk0,
                  edges_files, all_datasets, notPrep >>

\* Variant: a graph is written only if its file is missing.
GenerateGraph_if_missing ==
  /\ dPc = "generate" /\ gI <= Len(synthetic)
  /\ disk' = IF disk[synthetic[gI]] = Absent
               THEN [disk EXCEPT ![synthetic[gI]] = << "new" >>]
               ELSE disk
  /\ gI' = gI + 1
  /\ UNCHANGED << dScript, skip_generate, snap_only, snap_datasets, disk0,
                  edges_files, all_datasets, dPc, notPrep >>

\* generate_all_graphs: the next graph is built and save_graph_to_text_files
\* writes its files, whatever is there.
GenerateGraph ==
  /\ dPc = "generate" /\ gI <= Len(synthetic)
  /\ disk' = [disk EXCEPT ![synthetic[gI]] = << "new" >>]
  /\ gI' = gI + 1
  /\ UNCHANGED << dScript, skip_generate, snap_only, snap_datasets, disk0,
                  edges_files, all_datasets, dPc, notPrep >>

\* generate_all_graphs returns the four paths: the centrality main takes
\* them as edges_files (line 460), the benchmark main adds them to
\* all_datasets (line 473).
GenerateReturn ==
  /\ dPc = "generate" /\ gI > Len(synthetic)
  /\ IF dScript = "centrality"
       THEN /\ edges_files' = Synthetic
            /\ dPc' = "run"
            /\ UNCHANGED all_datasets
       ELSE /\ all_datasets' = all_datasets \cup Synthetic
            /\ dPc' = "snap"
            /\ UNCHANGED edges_files
  /\ UNCHANGED << dScript, skip_generate, snap_only, snap_datasets, disk, disk0,
                  gI, notPrep >>

\* Benchmark main lines 476-490: the discovered datasets are added; with no
\* dataset at all main returns.
MainSnap ==
  /\ dPc = "snap"
  /\ all_datasets' = all_datasets \cup snap_datasets
  /\ dPc' = IF all_datasets' = { } THEN "exit" ELSE "run"
  /\ UNCHANGED << dScript, skip_generate, snap_only, snap_datasets, disk, disk0,
                  edges_files, gI, notPrep >>

InitPrep ==
  /\ dScript \in { "centrality", "bench" }
  /\ skip_generate \in BOOLEAN
  /\ snap_only \in BOOLEAN
  /\ dScript = "centrality" => ~snap_only
  /\ snap_datasets \in SUBSET { "snap_facebook" }
  /\ dScript = "centrality" => snap_datasets = { }
  /\ disk \in [ Synthetic -> { Absent, << "old" >> } ]
  /\ disk0 = disk
  /\ edges_files = { }
  /\ all_datasets = { }
  /\ gI = 1
  /\ dPc = "start"
  /\ BenchIdle
  /\ ProbeIdle
  /\ LoopIdle
  /\ ReconIdle
  /\ PyIdle
  /\ CsvIdle
  /\ FbIdle
  /\ SkipIdle
  /\ WebIdle
  /\ SirIdle
  /\ ThrIdle

NextPrep ==
  \/ PrepCollect
  \/ PrepSkipGenerate
  \/ PrepAllPresent
  \/ PrepGenerateAll
  \/ MainSnapOnly
  \/ MainSkipGenerate
  \/ MainGenerate
  \/ GenerateGraph
  \/ GenerateReturn
  \/ MainSnap

SpecPrep == InitPrep /\ [][NextPrep]_vars

(***************************************************************************)
(* should_skip_algorithm, called on its own with any name and edge count   *)
(***************************************************************************)
\* The words algorithm names are made of.
NameWords ==
  { "girvan", "newman", "eigenvector", "betweenness", "closeness", "degree",
    "edge", "pagerank" }

\* Names of up to two words, the empty name among them.
AlgoNames ==
  { << >> } \cup { << w >> : w \in NameWords }
  \cup { << w, x >> : w \in NameWords, x \in NameWords }

SkipCall ==
  /\ kPc = "called"
  /\ kResult' = should_skip_algorithm(kName, kEdges)
  /\ kPc' = "returned"
  /\ UNCHANGED << kName, kEdges, notSkip >>

InitSkip ==
  /\ kName \in AlgoNames
  /\ kEdges \in EdgeCounts \cup { 0 }
  /\ kPc = "called"
  /\ kResult = << >>
  /\ BenchIdle
  /\ ProbeIdle
  /\ LoopIdle
  /\ ReconIdle
  /\ PyIdle
  /\ CsvIdle
  /\ FbIdle
  /\ PrepIdle
  /\ WebIdle
  /\ SirIdle
  /\ ThrIdle

NextSkip == SkipCall

SpecSkip == InitSkip /\ [][NextSkip]_vars

(***************************************************************************)
(* The request handlers of src/BONUS/web_dashboard.py and the global       *)
(* networks.  Requests are handled one at a time, in any order.            *)
(***************************************************************************)
NetworkTypes == { "small_world", "random", "scale_free" }

\* What a request may name as network: the three types and another name.
RequestedTypes == NetworkTypes \cup { "grid" }

\* load_or_generate_networks: `if not networks` the three graphs are made.
load_or_generate_networks(nets) ==
  IF \A k \in NetworkTypes : nets[k] = "none"
    THEN [k \in NetworkTypes |-> "default"]
    ELSE nets

Response(endpoint, status, graph) ==
  [endpoint |-> endpoint, status |-> status, graph |-> graph]

\* networks.get(network_type, networks['small_world']): the default is
\* evaluated before get is called, and raises KeyError without the key.
Lookup(nets, network_type) ==
  IF nets["small_world"] = "none" THEN "KeyError"
  ELSE IF network_type \in NetworkTypes /\ nets[network_type] # "none"
    THEN nets[network_type]
  ELSE nets["small_world"]

\* The response of a handler that looked a network up: 200 with the result
\* for the graph found, or 500 when the lookup raised.
Found(endpoint, G) ==
  IF G = "KeyError" THEN Response(endpoint, 500, "KeyError")
  ELSE Response(endpoint, 200, G)

\* lines 370-382: every network is answered for
get_networks ==
  /\ wRequests < MaxRequests
  /\ networks' = load_or_generate_networks(networks)
  /\ wResponse' = Response("/api/networks", 200, "all")
  /\ wRequests' = wRequests + 1
  /\ UNCHANGED notWeb

\* lines 384-393
get_metrics ==
  /\ wRequests < MaxRequests
  /\ networks' = load_or_generate_networks(networks)
  /\ wResponse' = Response("/api/metrics", 200, "all")
  /\ wRequests' = wRequests + 1
  /\ UNCHANGED notWeb

\* lines 395-411: the networks are loaded, one is looked up, the simulation
\* is run on it
simulate_disease ==
  /\ wRequests < MaxRequests
  /\ \E network_type \in RequestedTypes :
       /\ networks' = load_or_generate_networks(networks)
       /\ wResponse' = Found("/api/simulate/disease", Lookup(networks', network_type))
  /\ wRequests' = wRequests + 1
  /\ UNCHANGED notWeb

\* lines 413-428
simulate_influence ==
  /\ wRequests < MaxRequests
  /\ \E network_type \in RequestedTypes :
       /\ networks' = load_or_generate_networks(networks)
       /\ wResponse' = Found("/api/simulate/influence", Lookup(networks', network_type))
  /\ wRequests' = wRequests + 1
  /\ UNCHANGED notWeb

\* lines 430-445
simulate_cooperation_route ==
  /\ wRequests < MaxRequests
  /\ \E network_type \in RequestedTypes :
       /\ networks' = load_or_generate_networks(networks)
       /\ wResponse' = Found("/api/simulate/cooperation", Lookup(networks', network_type))
  /\ wRequests' = wRequests + 1
  /\ UNCHANGED notWeb

\* lines 447-459
simulate_transport_route ==
  /\ wRequests < MaxRequests
  /\ \E network_type \in RequestedTypes :
       /\ networks' = load_or_generate_networks(networks)
       /\ wResponse' = Found("/api/simulate/transport", Lookup(networks', network_type))
  /\ wRequests' = wRequests + 1
  /\ UNCHANGED notWeb

\* lines 461-469
get_network_3d ==
  /\ wRequests < MaxRequests
  /\ \E network_type \in RequestedTypes :
       /\ networks' = load_or_generate_networks(networks)
       /\ wResponse' = Found("/api/network3d", Lookup(networks', network_type))
  /\ wRequests' = wRequests + 1
  /\ UNCHANGED notWeb

\* generate_network: a graph of a known type is made and stored under its
\* type; another type is answered with 400; a generator that rejects its
\* parameters raises and nothing is stored.
generate_network ==
  /\ wRequests < MaxRequests
  /\ \E network_type \in RequestedTypes, accepted \in BOOLEAN :
       IF network_type \notin NetworkTypes
         THEN /\ wResponse' = Response("/api/generate", 400, "none")
              /\ networks' = networks
       ELSE IF ~accepted
         THEN /\ wResponse' = Response("/api/generate", 500, "none")
              /\ networks' = networks
       ELSE /\ networks' = [networks EXCEPT ![network_type] = "custom"]
            /\ wResponse' = Response("/api/generate", 200, "custom")
  /\ wRequests' = wRequests + 1
  /\ UNCHANGED notWeb

InitWeb ==
  /\ networks = [k \in NetworkTypes |-> "none"]
  /\ wRequests = 0
  /\ wResponse = Response("", 0, "none")
  /\ BenchIdle
  /\ ProbeIdle
  /\ LoopIdle
  /\ ReconIdle
  /\ PyIdle
  /\ CsvIdle
  /\ FbIdle
  /\ PrepIdle
  /\ SkipIdle
  /\ SirIdle
  /\ ThrIdle

NextWeb ==
  \/ get_networks
  \/ get_metrics
  \/ simulate_disease
  \/ simulate_influence
  \/ simulate_cooperation_route
  \/ simulate_transport_route
  \/ get_network_3d
  \/ generate_network

SpecWeb == InitWeb /\ [][NextWeb]_vars

(***************************************************************************)
(* simulate_sir_model(G, beta, gamma, steps) of src/BONUS/web_dashboard.py *)
(* random.random() < beta and random.random() < gamma are choices: every   *)
(* attempt to infect and every attempt to recover may succeed or fail.     *)
(***************************************************************************)
\* A graph of the nodes 0..n-1: its edges and, for each node, the nodes next
\* to it.
Graph(n, edges) ==
  [ n     |-> n,
    edges |-> edges,
    adj   |-> [v \in 0..(n - 1) |-> { u \in 0..(n - 1) : {u, v} \in edges }] ]

Nodes(G) == 0..(G.n - 1)

\* G.neighbors(v)
Neighbors(G, v) == G.adj[v]

\* The graphs the simulations are run on: none to four nodes, with and
\* without isolated nodes.
Graphs ==
  { Graph(0, { }),
    Graph(1, { }),
    Graph(2, { {0, 1} }),
    Graph(3, { {0, 1} }),
    Graph(3, { {0, 1}, {1, 2} }),
    Graph(3, { {0, 1}, {1, 2}, {0, 2} }),
    Graph(4, { {0, 1}, {1, 2}, {2, 3} }),
    Graph(4, { {0, 1}, {0, 2}, {0, 3} }) }

\* The graphs simulate_sir_model is run on.
SirGraphs == { G \in Graphs : G.n <= 3 }

\* max(a, b)
Max(a, b) == IF a >= b THEN a ELSE b

\* min(a, b)
Min(a, b) == IF a <= b THEN a ELSE b

\* state.count(x)
Count(st, x) == Cardinality({ v \in DOMAIN st : st[v] = x })

SirEntry(step, S, I, R) ==
  [step |-> step, susceptible |-> S, infected |-> I, recovered |-> R]

\* Variant: a neighbour is infected unless it is infected already.
SpreadOutcomes_reinfects(G, st) ==
  { ns \in [Nodes(G) -> 0..2] :
      \A v \in Nodes(G) :
         CASE st[v] = 1 -> ns[v] \in {1, 2}
           [] OTHER ->
                \/ ns[v] = st[v]
                \/ ns[v] = 1 /\ \E u \in Neighbors(G, v) : st[u] = 1 }

\* lines 121-134: the new states one pass over the nodes can give: a
\* susceptible neighbour of an infected node may be infected, an infected
\* node may recover, the others stay as they are.
SpreadOutcomes(G, st) ==
  { ns \in [Nodes(G) -> 0..2] :
      \A v \in Nodes(G) :
         CASE st[v] = 0 ->
                \/ ns[v] = 0
                \/ ns[v] = 1 /\ \E u \in Neighbors(G, v) : st[u] = 1
           [] st[v] = 1 -> ns[v] \in {1, 2}
           [] OTHER -> ns[v] = 2 }

\* lines 84-93: the patients zero; random.sample raises ValueError on a
\* graph with fewer nodes than it is asked for
SirSeed ==
  /\ sirPc = "seed"
  /\ LET N           == sirG.n
         num_initial == Max(1, N \div PatientZeroShare)
     IN  IF num_initial > N
           THEN /\ sirPc' = "raised"
                /\ state' = state
           ELSE /\ \E initial_infected \in SUBSET Nodes(sirG) :
                     /\ Cardinality(initial_infected) = num_initial
                     /\ state' = [v \in Nodes(sirG) |->
                                    IF v \in initial_infected THEN 1 ELSE 0]
                /\ sirPc' = IF steps > 0 THEN "record" ELSE "done"
  /\ UNCHANGED << sirG, steps, sirStep, sirTimeline, notSir >>

\* lines 98-118: the counts are appended; without an infected node the
\* entry is repeated for the steps up to min(step + 10, steps) and the loop
\* ends
SirRecord ==
  /\ sirPc = "record"
  /\ LET S     == Count(state, 0)
         I     == Count(state, 1)
         R     == Count(state, 2)
         upto  == Min(sirStep + PadSteps, steps)
     IN  IF I = 0
           THEN /\ sirTimeline' =
                     Append(sirTimeline, SirEntry(sirStep, S, I, R))
                     \o [r \in 1..(upto - sirStep - 1) |->
                           SirEntry(sirStep + r, S, 0, R)]
                /\ sirPc' = "done"
           ELSE /\ sirTimeline' = Append(sirTimeline, SirEntry(sirStep, S, I, R))
                /\ sirPc' = "spread"
  /\ UNCHANGED << sirG, steps, state, sirStep, notSir >>

\* lines 120-135: one pass of infection and recovery, then the next step
SirSpread ==
  /\ sirPc = "spread"
  /\ state' \in SpreadOutcomes(sirG, state)
  /\ sirStep' = sirStep + 1
  /\ sirPc' = IF sirStep + 1 < steps THEN "record" ELSE "done"
  /\ UNCHANGED << sirG, steps, sirTimeline, notSir >>

InitSir ==
  /\ sirG \in SirGraphs
  /\ steps \in { 1, 2, MaxSteps }
  /\ state = << >>
  /\ sirStep = 0
  /\ sirTimeline = << >>
  /\ sirPc = "seed"
  /\ BenchIdle
  /\ ProbeIdle
  /\ LoopIdle
  /\ ReconIdle
  /\ PyIdle
  /\ CsvIdle
  /\ FbIdle
  /\ PrepIdle
  /\ SkipIdle
  /\ WebIdle
  /\ ThrIdle

NextSir ==
  \/ SirSeed
  \/ SirRecord
  \/ SirSpread

SpecSir == InitSir /\ [][NextSir]_vars

(***************************************************************************)
(* simulate_threshold_model(G, threshold, initial_adopters) of             *)
(* src/BONUS/web_dashboard.py.  The entry's percentage is a function of    *)
(* its count and is left out.                                              *)
(***************************************************************************)
\* A path of n nodes.
PathGraph(n) == Graph(n, { {i, i + 1} : i \in 0..(n - 2) })

Fraction(num, den) == [num |-> num, den |-> den]

\* The thresholds of the small graphs: 0, 0.3, 0.5, 1 and 1.5.
Thresholds ==
  { Fraction(0, 1), Fraction(3, 10), Fraction(1, 2), Fraction(1, 1),
    Fraction(3, 2) }

\* The calls: the small graphs with every threshold, graphs of five and six
\* nodes, and a path long enough for max_steps to end the loop.
ThrCalls ==
  { << G, t >> : G \in Graphs, t \in Thresholds }
  \cup { << G, t >> : G \in { PathGraph(5), PathGraph(6),
                             Graph(5, { {0, 1}, {0, 2}, {0, 3} }) },
                     t \in Thresholds }
  \cup { << PathGraph(max_steps + 3), Fraction(1, 2) >> }

\* G.degree(v)
Degree(G, v) == Cardinality(Neighbors(G, v))

\* nodes_by_degree[:k]: the first k nodes by falling degree; sorted() is
\* stable, nodes of one degree stay in the order of their ids
HighDegree(G, k) ==
  { v \in Nodes(G) :
      Cardinality({ u \in Nodes(G) :
                      \/ Degree(G, u) > Degree(G, v)
                      \/ Degree(G, u) = Degree(G, v) /\ u < v }) < k }

\* sum(1 for n in neighbors if adopted[n])
AdoptedNeighbors(G, ad, v) == Cardinality({ u \in Neighbors(G, v) : ad[u] })

\* Variant: a node adopts only above the threshold.
NewAdopted_above(G, ad, thr) ==
  [v \in Nodes(G) |->
     \/ ad[v]
     \/ /\ Neighbors(G, v) # { }
        /\ AdoptedNeighbors(G, ad, v) * thr.den > thr.num * Degree(G, v)]

\* lines 195-206: new_adopted after one pass over the nodes
NewAdopted(G, ad, thr) ==
  [v \in Nodes(G) |->
     \/ ad[v]
     \/ /\ Neighbors(G, v) # { }
        /\ AdoptedNeighbors(G, ad, v) * thr.den >= thr.num * Degree(G, v)]

\* What random.sample(population, k) may return, as sets: the subsets of k
\* elements.
RECURSIVE Samples(_, _)
Samples(population, k) ==
  IF k = 0 THEN { { } }
  ELSE { S \in { T \cup {x} : T \in Samples(population, k - 1),
                              x \in population } :
           Cardinality(S) = k }

ThrEntry(step, adopter_count) == [step |-> step, adopters |-> adopter_count]

\* num_seeds = max(3, N // 20)
NumSeeds(G) == Max(MinSeeds, G.n \div SeedShare)

\* high_degree_seeds = nodes_by_degree[:num_seeds // 2]
HighDegreeSeeds(G) == HighDegree(G, NumSeeds(G) \div 2)

\* random.sample(remaining_nodes, num_seeds - len(high_degree_seeds)): one
\* of the samples, or ValueError when fewer nodes remain than are asked for
SeedDraws(G) ==
  LET remaining_nodes == Nodes(G) \ HighDegreeSeeds(G)
      wanted          == NumSeeds(G) - Cardinality(HighDegreeSeeds(G))
  IN  IF wanted > Cardinality(remaining_nodes)
        THEN { [raised |-> TRUE, nodes |-> { }] }
        ELSE { [raised |-> FALSE, nodes |-> sample] :
                 sample \in Samples(remaining_nodes, wanted) }

\* lines 150-166: the seeds are marked as adopted, unless random.sample
\* raised
ThrSeed ==
  /\ thrPc = "seed"
  /\ IF random_seeds.raised
       THEN /\ thrPc' = "raised"
            /\ adopted' = adopted
       ELSE /\ \E seeds \in { HighDegreeSeeds(thrG) \cup random_seeds.nodes } :
                 adopted' = [v \in Nodes(thrG) |-> v \in seeds]
            /\ thrPc' = "record"
  /\ UNCHANGED << thrG, threshold, random_seeds, thrStep, thrTimeline,
                  prev_count, stall_count, notThr >>

\* lines 174-193: the count is appended; the loop ends at the third count
\* in a row that equals the one before it, or when every node has adopted
ThrRecord ==
  /\ thrPc = "record"
  /\ LET adopter_count == Cardinality({ v \in Nodes(thrG) : adopted[v] })
         stalls        == IF adopter_count = prev_count
                            THEN stall_count + 1 ELSE 0
     IN  /\ thrTimeline' = Append(thrTimeline, ThrEntry(thrStep, adopter_count))
         /\ stall_count' = stalls
         /\ IF adopter_count = prev_count /\ stalls >= StallLimit
              THEN /\ thrPc' = "done"
                   /\ prev_count' = prev_count
              ELSE /\ prev_count' = adopter_count
                   /\ thrPc' = IF adopter_count >= thrG.n THEN "done" ELSE "spread"
  /\ UNCHANGED << thrG, threshold, random_seeds, adopted, thrStep, notThr >>

\* lines 195-209: one pass over the nodes, then the next step
ThrSpread ==
  /\ thrPc = "spread"
  /\ adopted' = NewAdopted(thrG, adopted, threshold)
  /\ thrStep' = thrStep + 1
  /\ thrPc' = IF thrStep + 1 < max_steps THEN "record" ELSE "done"
  /\ UNCHANGED << thrG, threshold, random_seeds, thrTimeline, prev_count,
                  stall_count, notThr >>

InitThr ==
  /\ \E call \in ThrCalls :
       /\ thrG = call[1]
       /\ threshold = call[2]
       /\ random_seeds \in SeedDraws(call[1])
  /\ adopted = << >>
  /\ thrStep = 0
  /\ thrTimeline = << >>
  /\ prev_count = 0
  /\ stall_count = 0
  /\ thrPc = "seed"
  /\ BenchIdle
  /\ ProbeIdle
  /\ LoopIdle
  /\ ReconIdle
  /\ PyIdle
  /\ CsvIdle
  /\ FbIdle
  /\ PrepIdle
  /\ SkipIdle
  /\ WebIdle
  /\ SirIdle

NextThr ==
  \/ ThrSeed
  \/ ThrRecord
  \/ ThrSpread

SpecThr == InitThr /\ [][NextThr]_vars

\* The loop is a sequential program: it takes its next step.
SpecThrLive == SpecThr /\ WF_vars(NextThr)

(***************************************************************************)
(* Properties of run_all_benchmarks                                        *)
(***************************************************************************)
Existing == { d \in 1..Len(datasets) : datasets[d].exists }

AllPairs == { <<d, a>> : d \in Existing, a \in 1..Len(all_algos) }

RowsOf(d, a) ==
  { i \in 1..Len(benchmark_results) :
      /\ benchmark_results[i].dataset = datasets[d].name
      /\ benchmark_results[i].algorithm = all_algos[a].name }

\* The iteration of the pair is over.
Finished(d, a) ==
  /\ <<d, a>> \in attempted
  /\ cur # <<d, a>> \/ pc \in {"pair", "dataset", "save", "done"}

\* The outcome classes of the specification, and the class of each status
\* the code writes into a row.
OutcomeClasses == {"Success", "Failed", "Timeout", "Skipped", "BinaryMissing"}

StatusClass(status) ==
  CASE status = "Success" -> "Success"
    [] status \in {"Failed (exit code)", "Error"} -> "Failed"
    [] status = "Timeout" -> "Timeout"
    [] status = "Binary not found" -> "BinaryMissing"
    [] status \in {"Excluded (too slow)", "Skipped (graph too large)"} -> "Skipped"
    [] OTHER -> "none"

\* C1 (as claimed): when the loop has finished, the table holds exactly one
\* row for every algorithm on every dataset whose file exists, whatever the
\* native binary did and whether or not a reference function is configured.
C1_OneRowPerPair ==
  pc = "done" =>
    \A p \in AllPairs : Cardinality(RowsOf(p[1], p[2])) = 1

C3_FailureIsolated ==
  /\ pc # "crashed"
  /\ pc # "done" => ENABLED NextBench
  /\ pc = "done" => attempted = AllPairs /\ written

\* C3 witness: the run is done and a pair that failed was followed by
\* others.
C3_Witness ==
  /\ pc = "done" /\ written /\ faults > 0
  /\ \E i \in 1..(Len(benchmark_results) - 1) :
       benchmark_results[i].status \in {"Error", "Timeout"}

\* C5: for a pair should_skip_algorithm marks as skipped, neither the binary
\* nor the reference function is ever run, and its one row carries the
\* reason.
C5_SkippedPairRunsNothing ==
  \A p \in attempted :
    LET sk == should_skip_algorithm(all_algos[p[2]].name, datasets[p[1]].edges)
    IN  sk[1] =>
          /\ <<"native", p[1], p[2]>> \notin calls
          /\ <<"python", p[1], p[2]>> \notin calls
          /\ Cardinality(RowsOf(p[1], p[2])) = 1
          /\ \A i \in RowsOf(p[1], p[2]) :
               /\ benchmark_results[i].status = sk[2]
               /\ benchmark_results[i].implementation = "N/A"

\* C5 witness: betweenness was skipped on a graph above its edge limit and
\* the loop went on to the next algorithm.
C5_Witness ==
  /\ trace = << >> /\ pc = "native"
  /\ cur[2] = 4
  /\ \E i \in RowsOf(cur[1], 3) :
       benchmark_results[i].status = "Skipped (graph too large)"

\* C9: the steps taken for one pair are: skip alone; or the native step
\* (found missing, or run) first and at most once; and the reference
\* computation only for an algorithm that has one, only as the last step,
\* and only when the native step was off, found no binary, or ended in
\* something other than Success.  It never follows a native Success or a
\* skip.
C9_AttemptStateMachine ==
  /\ Len(trace) <= 2
  /\ \A i \in 1..Len(trace) :
       /\ trace[i][1] \in {"skip", "exe_missing", "native", "python"}
       /\ trace[i][1] = "skip" => Len(trace) = 1
       /\ trace[i][1] \in {"exe_missing", "native"} =>
            i = 1 /\ use_cpp /\ all_algos[cur[2]].cpp
       /\ trace[i][1] = "native" =>
            trace[i][2] \in {"Success", "Failed (exit code)", "Timeout",
                             "Binary not found", "Error"}
       /\ trace[i][1] = "python" =>
            /\ all_algos[cur[2]].python
            /\ trace[i][2] \in {"Success", "Timeout", "Error"}
            /\ i = 1 => ~(use_cpp /\ all_algos[cur[2]].cpp)
            /\ i = 2 => \/ trace[1][1] = "exe_missing"
                        \/ trace[1][1] = "native" /\ trace[1][2] # "Success"
  /\ \A c \in calls :
       c[1] = "python" =>
         \A i \in RowsOf(c[2], c[3]) :
            benchmark_results[i].implementation = "Python"

\* C9 witness: the binary timed out and the reference computation then
\* succeeded.
C9_Witness ==
  trace = << <<"native", "Timeout">>, <<"python", "Success">> >>

(***************************************************************************)
(* Properties of run_cpp_algorithm                                         *)
(***************************************************************************)
ProbeOver == pState \in {"returned", "raised"}

\* C7: a child that has not ended within the timeout is terminated and the
\* call returns (timeout, "Timeout"): no other elapsed time, no other status.
C7_HardTimeout ==
  (ProbeOver /\ pChild.kind = "exit" /\ pChild.dur > pTimeout) =>
    /\ pState = "returned"
    /\ pResult = << pTimeout, "Timeout" >>
    /\ ~pAlive

\* C7 witness: a child that outlives the timeout was run to the end of the
\* call.
C7_Witness ==
  /\ pState = "returned" /\ pChild.kind = "exit"
  /\ pChild.dur > pTimeout /\ pResult[2] = "Timeout"

\* C8: the call never raises; it returns (elapsed, status) with Success for
\* exit code 0, a Failed status and the measured time for another exit
\* code, Timeout for a timeout, a binary-not-found status for a missing
\* binary and an error status for any other exception.
C8_NeverRaises ==
  /\ pState # "raised"
  /\ pState = "returned" =>
       /\ pResult[1] \in Nat
       /\ pChild.kind = "enoent" => pResult = << 0, "Binary not found" >>
       /\ pChild.kind = "oserror" => pResult = << 0, "Error" >>
       /\ (pChild.kind = "exit" /\ pChild.dur > pTimeout) =>
            pResult[2] = "Timeout"
       /\ (pChild.kind = "exit" /\ pChild.dur <= pTimeout /\ pChild.code = 0) =>
            pResult = << pChild.dur, "Success" >>
       /\ (pChild.kind = "exit" /\ pChild.dur <= pTimeout /\ pChild.code # 0) =>
            pResult = << pChild.dur, "Failed (exit code)" >>

\* C8 witness: the spawn raised an exception other than FileNotFoundError
\* and the call returned.
C8_Witness ==
  pState = "returned" /\ pChild.kind = "oserror" /\ pResult[2] = "Error"

(***************************************************************************)
(* Properties of the benchmark scripts                                     *)
(***************************************************************************)
LoopPairs ==
  { <<g, a>> : g \in 1..Len(graphs), a \in 1..Len(algorithms(lScript)) }

\* C4 (as claimed): a missing or failing executable, or an unreadable graph
\* file, does not end the run: the script never stops on an exception, and
\* when it is over every pair was attempted, has its row, and the CSV is
\* written.
C4_LoopsSurviveFailures ==
  /\ lPc # "crashed"
  /\ lPc = "done" =>
       /\ lAttempted = LoopPairs
       /\ Len(lRows) = Cardinality(LoopPairs)
       /\ lWritten

(***************************************************************************)
(* Properties of run_cpp_algorithms                                        *)
(***************************************************************************)
\* The search has been made for the algorithm in hand.
Located == rPc = "move"

\* C10: when the binary was not freshly run, the artifact chosen is the
\* first that exists of output_dir/{shortname}_{dataset}.csv,
\* cpp_dir/{shortname}_centrality.csv, cpp_dir/{shortname}_{dataset}.csv, in
\* that order, and none if none exists; likewise the timing file among its
\* three candidates.
C10_FirstExistingCandidate ==
  (Located /\ ~ran) =>
    /\ src_csv =
         IF fs[Path(output_dir, "base", "csv")] # Absent
           THEN Path(output_dir, "base", "csv")
         ELSE IF fs[Path(cpp_dir, "centrality", "csv")] # Absent
           THEN Path(cpp_dir, "centrality", "csv")
         ELSE IF fs[Path(cpp_dir, "base", "csv")] # Absent
           THEN Path(cpp_dir, "base", "csv")
         ELSE NoPath
    /\ src_time =
         IF fs[Path(output_dir, "base", "time")] # Absent
           THEN Path(output_dir, "base", "time")
         ELSE IF fs[Path(cpp_dir, "centrality", "time")] # Absent
           THEN Path(cpp_dir, "centrality", "time")
         ELSE IF fs[Path(cpp_dir, "base", "time")] # Absent
           THEN Path(cpp_dir, "base", "time")
         ELSE NoPath

\* C10 witness: nothing was freshly run, the output directory holds no
\* artifact, cpp_dir holds both of its candidates and the default-named one
\* was chosen; of the timing files only the third candidate exists and was
\* chosen.
C10_Witness ==
  /\ Located /\ ~ran /\ output_dir # cpp_dir
  /\ fs[Path(output_dir, "base", "csv")] = Absent
  /\ fs[Path(cpp_dir, "centrality", "csv")] # Absent
  /\ fs[Path(cpp_dir, "base", "csv")] # Absent
  /\ src_csv = Path(cpp_dir, "centrality", "csv")
  /\ fs[Path(output_dir, "base", "time")] = Absent
  /\ fs[Path(cpp_dir, "centrality", "time")] = Absent
  /\ src_time = Path(cpp_dir, "base", "time")

(***************************************************************************)
(* Properties of the test for the native executable                        *)
(***************************************************************************)
\* C6: when the executable is absent or not executable, no subprocess is
\* spawned for the pair: run_all_benchmarks does not call
\* run_cpp_algorithm, run_cpp_algorithms does not call subprocess.run; and
\* in run_all_benchmarks the reference computation, when one is configured,
\* is the next step and the only one possible.
C6_MissingBinarySpawnsNothing ==
  /\ \A i \in 1..Len(trace) :
       trace[i][1] = "exe_missing" =>
         /\ <<"native", cur[1], cur[2]>> \notin calls
         /\ \A j \in 1..Len(trace) : trace[j][1] # "native"
         /\ all_algos[cur[2]].python =>
              /\ Len(trace) = i =>
                   pc = "fallback" /\ ENABLED PythonRun /\ ~ENABLED NoFallback
              /\ Len(trace) > i =>
                   /\ i + 1 = Len(trace)
                   /\ trace[i + 1][1] = "python"
                   /\ <<"python", cur[1], cur[2]>> \in calls
  /\ (rPc \in {"locate", "move", "record"} /\ ~exe_ok) =>
       ~spawned /\ ~ran

\* C6 witness, run_all_benchmarks: the executable was missing and the
\* reference computation was run next.
C6_Witness ==
  /\ Len(trace) = 2
  /\ trace[1][1] = "exe_missing"
  /\ trace[2] = <<"python", "Success">>
  /\ <<"python", cur[1], cur[2]>> \in calls

\* C6 witness, run_cpp_algorithms: the executable was missing and the search
\* for pre-generated files went on with nothing spawned.
C6_WitnessRecon ==
  /\ rPc = "move" /\ ~exe_ok /\ ~spawned
  /\ src_csv # NoPath

(***************************************************************************)
(* Properties of the results of run_cpp_algorithms                         *)
(***************************************************************************)
\* The entries of results for the algorithm at place i of algos.
EntriesOf(i) == { e \in results : e.shortname = algos[i].shortname }

\* The iteration of the algorithm at place rI - 1 has just ended; fs is as
\* that iteration left it.
IterationOver == rPc = "begin" /\ rI > 1

EntryOn(f) ==
  IF f[Path(output_dir, "base", "csv")] = Absent THEN { }
  ELSE { [ centrality_file |-> Path(output_dir, "base", "csv"),
           time_file       |-> IF f[Path(output_dir, "base", "time")] = Absent
                                 THEN NoPath
                                 ELSE Path(output_dir, "base", "time") ] }

\* No os.replace of the last pass raised: a source that was to be moved is
\* gone from where it was.
MovesDone ==
  /\ src_csv \in {NoPath, Path(output_dir, "base", "csv")} \/ fs[src_csv] = Absent
  /\ src_time \in {NoPath, Path(output_dir, "base", "time")} \/ fs[src_time] = Absent

FromAnotherPair(i) ==
  /\ lRows[i].source \notin {NoFile, EarlierRun}
  /\ \/ graphs[lRows[i].source[1]] # lRows[i].Graph
     \/ algorithms(lScript)[lRows[i].source[2]] # lRows[i].Algorithm

\* C13 (as claimed): within one run, what is read and recorded for a pair
\* was produced for that very pair: no row is computed from a file that the
\* child of another pair of the same run left behind.
C13_ArtifactOfThatPair ==
  \A i \in 1..Len(lRows) : ~FromAnotherPair(i)

(***************************************************************************)
(* Properties of run_python_algorithms                                     *)
(***************************************************************************)
\* C14: once the graph is loaded no exception leaves the function; for each
\* of the five algorithms a value mapping is there after its computation,
\* degree centrality exactly when its own function raised; and the
\* algorithm is in results exactly when both of its files were written.
C14_DegreeSubstituted ==
  /\ yPc = "crashed" => yLog = << >>
  /\ \A i \in 1..Len(yLog) :
       /\ yLog[i].shortname = algo_funcs[i]
       /\ yLog[i].vals = (IF yLog[i].raised THEN "degree" ELSE "own")
       /\ (i < yI) =>
            ( (\E e \in yResults : e.shortname = algo_funcs[i])
                <=> yLog[i].wrote )
  /\ yPc = "done" =>
       /\ Len(yLog) = Len(algo_funcs)
       /\ \A i \in 1..Len(yLog) :
            yLog[i].wrote =>
              { <<algo_funcs[i], "csv">>, <<algo_funcs[i], "time">> } \subseteq yFiles

\* C14 witness: the function of eigenvector raised, degree centrality was
\* written in its place and the function returned with all five entries.
C14_Witness ==
  /\ yPc = "done"
  /\ yLog[4].raised /\ yLog[4].vals = "degree" /\ yLog[4].wrote
  /\ Cardinality(yResults) = Len(algo_funcs)

(***************************************************************************)
(* Properties of the centrality CSV                                        *)
(***************************************************************************)
\* C15: a mapping of integer node ids to values, written as a centrality
\* CSV and read back, comes back with exactly the same node ids and, for
\* each node, the same value.
C15_CsvRoundTrip ==
  cPc = "done" =>
    /\ DOMAIN cRead = DOMAIN cVals
    /\ \A k \in DOMAIN cVals : cRead[k] = cVals[k]

\* C15 witness: a mapping with a negative and a two-digit node id, one
\* value written in exponent form and one negative, was written and read
\* back.
C15_Witness ==
  /\ cPc = "done"
  /\ DOMAIN cVals = { -1, MaxNodeId }
  /\ cVals[-1] = Float(FALSE, << 1, 2, 5 >>, -4)
  /\ cVals[MaxNodeId] = Float(TRUE, << 1 >>, 3)
  /\ Len(cFile) = 3
  /\ cRead[-1] = cVals[-1]

(***************************************************************************)
(* Properties of the table of run_all_benchmarks                           *)
(***************************************************************************)
\* The pair in hand got two outcomes: that of the binary, then that of the
\* reference computation (lines 291 and 316 both assign runtime, status).
TwoOutcomes ==
  /\ Len(trace) = 2
  /\ trace[1][1] = "native"
  /\ trace[2][1] = "python" /\ trace[2][2] # RAISED

C17_MissingDatasetDropped ==
  /\ pc # "crashed"
  /\ \A d \in 1..Len(datasets) :
       ~datasets[d].exists =>
         /\ \A a \in 1..Len(all_algos) :
              /\ <<d, a>> \notin attempted
              /\ <<"native", d, a>> \notin calls
              /\ <<"python", d, a>> \notin calls
         /\ \A i \in 1..Len(benchmark_results) :
              benchmark_results[i].dataset # datasets[d].name
         /\ cur[1] # d
  /\ pc = "done" => attempted = AllPairs /\ written

\* C17 witness: the file of the first dataset was missing, and the second
\* dataset was processed to the end.
C17_Witness ==
  /\ pc = "done" /\ written
  /\ ~datasets[1].exists /\ datasets[2].exists
  /\ \A a \in 1..Len(all_algos) : <<2, a>> \in attempted
  /\ benchmark_results # << >>

(***************************************************************************)
(* Properties of the Facebook analysis                                     *)
(***************************************************************************)
\* The attempts that ended failed, timed out, errored or skipped.
NotSucceeded ==
  { i \in 1..Len(fAttempts) :
      fAttempts[i].outcome \in {"failed", "timeout", "error", "skipped"} }

\* C18 (as claimed): every algorithm that was attempted and ended failed,
\* timed out, errored or skipped is in the results list with a status that
\* is not success, and so in algorithm_performance.csv and in the report.
C18_FailuresListed ==
  fPc = "done" =>
    \A i \in NotSucceeded :
      /\ \E j \in 1..Len(all_results) :
           /\ all_results[j].algorithm = fAttempts[i].algorithm
           /\ all_results[j].status # "success"
      /\ \E j \in 1..Len(fCsv) : fCsv[j].algorithm = fAttempts[i].algorithm
      /\ fAttempts[i].algorithm \in fListed

\* C19: with native executables disabled (use_cpp false, --no-cpp) nothing
\* but the reference computation is ever run: no build script, no algorithm
\* executable, not even the test for one; and every row has implementation
\* Python, or N/A for a skipped pair.
C19_NoCppSpawnsNothing ==
  ~use_cpp =>
    /\ \A c \in calls : c[1] = "python"
    /\ \A i \in 1..Len(trace) : trace[i][1] \in {"skip", "python"}
    /\ \A i \in 1..Len(benchmark_results) :
         /\ benchmark_results[i].implementation \in {"Python", "N/A"}
         /\ benchmark_results[i].implementation = "N/A" <=>
              StatusClass(benchmark_results[i].status) = "Skipped"

\* C19 witness: a run with native executables disabled is done; it ran
\* reference computations and recorded rows of both kinds.
C19_Witness ==
  /\ ~use_cpp /\ pc = "done" /\ written
  /\ \E c \in calls : c[1] = "python"
  /\ \E i \in 1..Len(benchmark_results) :
       benchmark_results[i].implementation = "Python"
  /\ \E i \in 1..Len(benchmark_results) :
       benchmark_results[i].implementation = "N/A"

(***************************************************************************)
(* Properties of a fresh run in run_cpp_algorithms                         *)
(***************************************************************************)
\* The move of src to dst was made from files f to files g, or os.replace
\* raised and both files are as they were.
MovedOrLeft(f, g, src, dst) ==
  \/ g[dst] = f[src] /\ g[src] = Absent
  \/ g[dst] = f[dst] /\ g[src] = f[src]

\* C20: when the binary was freshly and successfully run and
\* cpp_dir/{shortname}_centrality.csv exists, that file is the source
\* chosen, whether or not a file is at the canonical output path, and it is
\* moved over the canonical path (unless os.replace raises, which leaves
\* both files as they were); likewise the timing file.
C20_FreshRunPrefersToolDir ==
  [][ ( rPc = "move" /\ ran ) =>
        /\ fs[Path(cpp_dir, "centrality", "csv")] # Absent =>
             /\ src_csv = Path(cpp_dir, "centrality", "csv")
             /\ rPc' = "record" =>
                  MovedOrLeft(fs, fs', Path(cpp_dir, "centrality", "csv"),
                              Path(output_dir, "base", "csv"))
        /\ fs[Path(cpp_dir, "centrality", "time")] # Absent =>
             /\ src_time = Path(cpp_dir, "centrality", "time")
             /\ rPc' = "record" =>
                  MovedOrLeft(fs, fs', Path(cpp_dir, "centrality", "time"),
                              Path(output_dir, "base", "time"))
    ]_vars

\* C20 witness: after a fresh run the canonical paths hold files that were
\* there before the call, the tool directory holds the new ones, and the
\* new ones are the sources chosen for the move.
C20_Witness ==
  /\ rPc = "move" /\ ran /\ spawned /\ output_dir # cpp_dir
  /\ fs[Path(output_dir, "base", "csv")] = << Path(output_dir, "base", "csv"), "old" >>
  /\ fs[Path(output_dir, "base", "time")] = << Path(output_dir, "base", "time"), "old" >>
  /\ fs[Path(cpp_dir, "centrality", "csv")] = << Path(cpp_dir, "centrality", "csv"), "new" >>
  /\ fs[Path(cpp_dir, "centrality", "time")] = << Path(cpp_dir, "centrality", "time"), "new" >>
  /\ src_csv = Path(cpp_dir, "centrality", "csv")
  /\ src_time = Path(cpp_dir, "centrality", "time")

(***************************************************************************)
(* Properties of the moves of run_cpp_algorithms                           *)
(***************************************************************************)
\* The paths of one kind, "csv" or "time".
PathsOf(kind) == { p \in DOMAIN fs : p.kind = kind }

\* What one of the two moves may do to the files of its kind, from files f
\* to files g: nothing when no source was found or the source is the
\* canonical path; otherwise the source is gone and the canonical path
\* holds its content, or os.replace raised and nothing changed.  No third
\* file changes in any case.
MoveEffect(f, g, src, dst, kind) ==
  IF src = NoPath \/ src = dst
    THEN \A p \in PathsOf(kind) : g[p] = f[p]
    ELSE \/ /\ g[dst] = f[src]
            /\ g[src] = Absent
            /\ \A p \in PathsOf(kind) \ {src, dst} : g[p] = f[p]
         \/ \A p \in PathsOf(kind) : g[p] = f[p]

\* C21: once the sources are located, a source that is not the canonical
\* path is moved there (afterwards it is gone and the canonical path holds
\* its content); a source that is the canonical path changes nothing; a
\* move that fails changes nothing; no other file is touched; and the
\* algorithm is entered in results exactly if a file is at the canonical
\* path after the moves.
C21_MoveSemantics ==
  [][ /\ ( rPc = "move" /\ rPc' = "record" ) =>
           /\ MoveEffect(fs, fs', src_csv, Path(output_dir, "base", "csv"), "csv")
           /\ MoveEffect(fs, fs', src_time, Path(output_dir, "base", "time"), "time")
           /\ results' = results
      /\ ( rPc = "record" /\ rPc' = "begin" ) =>
           /\ fs' = fs
           /\ ( \E e \in results' : e.shortname = algos[rI].shortname )
                <=> fs[Path(output_dir, "base", "csv")] # Absent
    ]_vars

\* C21 witness: the source found in the tool directory was moved: it is
\* gone and the canonical path holds what was written there.
C21_Witness ==
  /\ rPc = "record" /\ output_dir # cpp_dir
  /\ src_csv = Path(cpp_dir, "base", "csv")
  /\ fs[src_csv] = Absent
  /\ fs[Path(output_dir, "base", "csv")] = << src_csv, "old" >>

(***************************************************************************)
(* Properties of the order of the rows of run_all_benchmarks               *)
(***************************************************************************)
\* The place of a row's pair in the run: the dataset's place in the
\* registry and the algorithm's place in the configuration.
DatasetPlace(r) == CHOOSE d \in 1..Len(datasets) : datasets[d].name = r.dataset

AlgoPlace(r) == CHOOSE a \in 1..Len(all_algos) : all_algos[a].name = r.algorithm

Before(r, q) ==
  \/ DatasetPlace(r) < DatasetPlace(q)
  \/ DatasetPlace(r) = DatasetPlace(q) /\ AlgoPlace(r) < AlgoPlace(q)

InAttemptOrder(rows) ==
  \A i, j \in 1..Len(rows) : i < j => Before(rows[i], rows[j])

IsPrefix(s, t) ==
  Len(s) <= Len(t) /\ \A i \in 1..Len(s) : t[i] = s[i]

\* C22: the rows of the table are in the order their pairs were attempted,
\* datasets in registry order and algorithms in configuration order, and a
\* step only ever appends: the rows already there stay where and as they
\* are.
C22_RowsAppendOnlyInOrder ==
  [][ /\ IsPrefix(benchmark_results, benchmark_results')
      /\ Len(benchmark_results') <= Len(benchmark_results) + 1
      /\ InAttemptOrder(benchmark_results')
      /\ Len(benchmark_results') > Len(benchmark_results) =>
           LET r == benchmark_results'[Len(benchmark_results')]
           IN  << DatasetPlace(r), AlgoPlace(r) >> = cur'
    ]_vars

\* C22 witness: the finished table holds rows of both datasets, a skipped
\* pair's row after rows of pairs that ran.
C22_Witness ==
  /\ pc = "done"
  /\ \E i, j, k \in 1..Len(benchmark_results) :
       /\ i < j /\ j < k
       /\ benchmark_results[i].status = "Success"
       /\ benchmark_results[j].implementation = "N/A"
       /\ benchmark_results[k].dataset # benchmark_results[i].dataset

(***************************************************************************)
(* Properties of the dataset preparation                                   *)
(***************************************************************************)
Prepared == dPc \in { "run", "exit" }

\* C23 as stated: a synthetic edge-list file that is there at start-up is
\* never written again, with --skip-generate no file is created, and the
\* missing datasets are left out of the run.
C23_ExistingNeverRegenerated ==
  /\ \A k \in OnDisk(disk0) : disk[k] = disk0[k]
  /\ skip_generate => disk = disk0
  /\ ( Prepared /\ skip_generate /\ dScript = "centrality" )
       => edges_files = OnDisk(disk0)

\* C23, amended: with --skip-generate or --snap-only no file is created or
\* written and, with --skip-generate, the run has the synthetic datasets
\* that were there; otherwise the benchmark main writes all four files on
\* every run, and the centrality main writes all four when at least one is
\* missing and none when all four are there.
C23_GeneratedUnlessToldNot ==
  /\ ( skip_generate \/ snap_only ) => disk = disk0
  /\ Prepared =>
       /\ ( skip_generate /\ dScript = "centrality" )
            => edges_files = OnDisk(disk0)
       /\ ( skip_generate /\ dScript = "bench" /\ ~snap_only )
            => all_datasets \cap Synthetic = OnDisk(disk0)
       /\ ( dScript = "bench" /\ snap_only )
            => all_datasets \cap Synthetic = { }
       /\ ( ~skip_generate /\ dScript = "centrality" ) =>
            /\ edges_files = Synthetic
            /\ IF OnDisk(disk0) = Synthetic
                 THEN disk = disk0
                 ELSE \A k \in Synthetic : disk[k] = << "new" >>
       /\ ( ~skip_generate /\ dScript = "bench" /\ ~snap_only ) =>
            /\ Synthetic \subseteq all_datasets
            /\ \A k \in Synthetic : disk[k] = << "new" >>

\* C23 witness: the centrality main found one file missing and wrote all
\* four, the one that was there among them.
C23_Witness ==
  /\ dPc = "run" /\ dScript = "centrality" /\ ~skip_generate
  /\ disk0["sparse"] = << "old" >> /\ disk0["dense"] = Absent
  /\ disk["sparse"] = << "new" >>

\* The node id of a line of the file.
NodeOf(line) == ParseInt(Split(line)[1]).val

\* C24: a centrality CSV that was written is the header line node,value
\* followed by exactly one line per node of the mapping, the node ids in
\* strictly ascending numeric order.
C24_OneRowPerNodeAscending ==
  cPc \in { "read", "done" } =>
    /\ cFile[1] = Header
    /\ Len(cFile) = 1 + Cardinality(DOMAIN cVals)
    /\ { NodeOf(cFile[i]) : i \in 2..Len(cFile) } = DOMAIN cVals
    /\ \A i \in 2..Len(cFile) : Len(Split(cFile[i])) = 2
    /\ \A i, j \in 2..Len(cFile) : i < j => NodeOf(cFile[i]) < NodeOf(cFile[j])

\* C24 witness: the file of a mapping with the node ids 3 and 12, whose
\* order as numbers is not their order as text.
C24_Witness ==
  /\ cPc = "read"
  /\ DOMAIN cVals = { 3, MaxNodeId }
  /\ Len(cFile) = 3
  /\ NodeOf(cFile[2]) = 3

(***************************************************************************)
(* Properties of should_skip_algorithm                                     *)
(***************************************************************************)
HasWord(name, w) == \E i \in 1..Len(name) : name[i] = w

HasExcludedName(name) ==
  \/ HasWord(name, "eigenvector")
  \/ \E i \in 1..(Len(name) - 1) : name[i] = "girvan" /\ name[i + 1] = "newman"

\* C25: should_skip_algorithm returns skip = true exactly when the name
\* contains an excluded name (girvan_newman, eigenvector), or contains
\* betweenness and the graph has more than 50000 edges, or contains
\* closeness and the graph has more than 100000 edges; otherwise it returns
\* skip = false with an empty reason.
C25_SkipExactlyWhen ==
  kPc = "returned" =>
    /\ kResult[1] <=> \/ HasExcludedName(kName)
                      \/ HasWord(kName, "betweenness") /\ kEdges > 50000
                      \/ HasWord(kName, "closeness") /\ kEdges > 100000
    /\ ~kResult[1] => kResult[2] = ""
    /\ kResult[1] => kResult[2] # ""

\* C25 witness: edge_betweenness on a graph of exactly 50000 edges is not
\* skipped.
C25_Witness ==
  /\ kPc = "returned"
  /\ kName = << "edge", "betweenness" >> /\ kEdges = 50000
  /\ kResult = << FALSE, "" >>

(***************************************************************************)
(* Properties of the rows with status Success                              *)
(***************************************************************************)
\* C26: every row with status Success has a runtime_ms that is not
\* negative and, when it is recorded, the result of its pair at the pair's
\* output path; a pair without a result, or whose mapping of values is
\* empty, has no row with status Success.
C26_SuccessHasArtifact ==
  \A i \in 1..Len(benchmark_results) :
     benchmark_results[i].status = "Success" =>
       /\ benchmark_results[i].runtime_ms >= 0
       /\ << "csv", DatasetPlace(benchmark_results[i]),
                    AlgoPlace(benchmark_results[i]) >> \in artifacts

(***************************************************************************)
(* Properties of the timeout of the reference computation                  *)
(***************************************************************************)
LastStatus(t) == IF t = << >> THEN "" ELSE t[Len(t)][2]

\* C27: run_python_algorithm returns Timeout and no result whenever the
\* computation took longer than the timeout, and Success with the result
\* when it finished within the timeout; after a Timeout run_all_benchmarks
\* writes neither the CSV nor the timing file of the pair and appends a row
\* with status Timeout and runtime_ms -1.
C27_TimeoutRecorded ==
  [][ ( pc = "fallback" /\ FallbackWanted /\ pc' = "pair" ) =>
        /\ \A comp \in BenchComps :
              comp.kind = "ok" =>
                LET res == run_python_algorithm(comp, TIMEOUT)
                IN  IF comp.dur > TIMEOUT
                      THEN res[1] = "none" /\ res[3] = "Timeout"
                      ELSE res[1] = comp.values /\ res[3] = "Success"
        /\ LastStatus(trace') = "Timeout" =>
              /\ artifacts' = artifacts
              /\ benchmark_results' =
                   Append(benchmark_results, Row(di, ai, -1, "Timeout", "Python"))
    ]_vars

\* C27 witness: the reference computation of a pair took longer than the
\* timeout; the row of the pair says Timeout and -1 and no file of the pair
\* was written.
C27_Witness ==
  /\ pc = "pair"
  /\ LastStatus(trace) = "Timeout" /\ trace[Len(trace)][1] = "python"
  /\ benchmark_results # << >>
  /\ benchmark_results[Len(benchmark_results)].status = "Timeout"
  /\ benchmark_results[Len(benchmark_results)].runtime_ms = -1
  /\ << "csv", cur[1], cur[2] >> \notin artifacts
  /\ << "time", cur[1], cur[2] >> \notin artifacts

(***************************************************************************)
(* Properties of the registry of networks of the dashboard                 *)
(***************************************************************************)
\* C28: after any requests in any order, POST /api/generate first among
\* them, a handler that looks a network up with the small_world default
\* finds small_world in the registry (it does not raise KeyError), and
\* load_or_generate_networks never replaces a graph that is in the
\* registry.
C28_DefaultAlwaysPresent ==
  [][ /\ wResponse'.graph # "KeyError"
      /\ wResponse'.endpoint # "/api/generate" =>
           \A k \in NetworkTypes :
              networks[k] # "none" => networks'[k] = networks[k]
    ]_vars

(***************************************************************************)
(* Properties of simulate_sir_model                                        *)
(***************************************************************************)
SirTimelineOk(t) ==
  /\ Len(t) <= steps
  /\ \A i \in 1..Len(t) :
        /\ t[i].step = i - 1
        /\ t[i].susceptible + t[i].infected + t[i].recovered = sirG.n
  /\ \A i \in 1..(Len(t) - 1) :
        /\ t[i + 1].susceptible <= t[i].susceptible
        /\ t[i + 1].recovered >= t[i].recovered
  /\ \A i, j \in 1..Len(t) :
        ( i < j /\ t[i].infected = 0 ) =>
           /\ t[j].infected = 0
           /\ t[j].susceptible = t[i].susceptible
           /\ t[j].recovered = t[i].recovered

\* C29: every entry of the timeline has susceptible + infected + recovered
\* = N; from an entry to the next susceptible does not increase and
\* recovered does not decrease; a node only goes from susceptible to
\* infected or from infected to recovered; the step numbers are 0, 1, 2,
\* ...; the timeline has at most `steps` entries; and after an entry with
\* infected = 0 every entry has infected = 0 and the same counts.
C29_SirTimeline ==
  [][ /\ SirTimelineOk(sirTimeline')
      /\ sirPc = "spread" =>
           \A v \in Nodes(sirG) :
              \/ state'[v] = state[v]
              \/ state[v] = 0 /\ state'[v] = 1
              \/ state[v] = 1 /\ state'[v] = 2
    ]_vars

\* C29 witness: an infection that spread to a second node and died out at
\* the third entry, which is followed by its nine repetitions.
C29_Witness ==
  /\ sirPc = "done"
  /\ Len(sirTimeline) = 3 + PadSteps - 1
  /\ sirTimeline[1].infected = 1
  /\ sirTimeline[3].infected = 0
  /\ sirTimeline[3].recovered = 2
  /\ sirTimeline[Len(sirTimeline)].recovered = 2

(***************************************************************************)
(* Properties of simulate_threshold_model                                  *)
(***************************************************************************)
\* The entry i and the three before it have the same count: the count was
\* unchanged at three entries in a row.
StalledAt(t, i) ==
  /\ i > StallLimit
  /\ \A k \in 1..StallLimit : t[i - k].adopters = t[i].adopters

ThrTimelineOk(t) ==
  /\ Len(t) <= 50
  /\ \A i \in 1..Len(t) : t[i].adopters <= thrG.n
  /\ \A i \in 1..(Len(t) - 1) :
        /\ t[i].adopters <= t[i + 1].adopters
        /\ t[i].adopters < thrG.n
        /\ ~StalledAt(t, i)
  /\ thrPc = "done" =>
        \/ t[Len(t)].adopters = thrG.n
        \/ StalledAt(t, Len(t))
        \/ Len(t) = 50

\* C30: simulate_threshold_model terminates and its timeline has at most
\* 50 entries; the count of adopters never falls and never exceeds N, and a
\* node that adopted stays so; in a step a node that has not adopted adopts
\* exactly if it has neighbours and the fraction of them that had adopted
\* at the start of the step is at least the threshold; and the loop stops
\* at the first entry at which every node has adopted or the count has been
\* unchanged at three entries in a row.
C30_ThresholdModel ==
  /\ []ThrTimelineOk(thrTimeline)
  /\ [][ thrPc = "spread" =>
           \A v \in Nodes(thrG) :
              adopted'[v] <=>
                \/ adopted[v]
                \/ /\ \E u \in Nodes(thrG) : {u, v} \in thrG.edges
                   /\ Cardinality({ u \in Nodes(thrG) :
                                      {u, v} \in thrG.edges /\ adopted[u] })
                        * threshold.den
                      >= threshold.num
                         * Cardinality({ u \in Nodes(thrG) : {u, v} \in thrG.edges })
       ]_vars
  /\ <>( thrPc \in { "done", "raised" } )

\* C30 witness: on the long path the adoption went on node by node and the
\* loop ended with its 50th entry, a node still without adoption.
C30_Witness ==
  /\ thrPc = "done"
  /\ Len(thrTimeline) = 50
  /\ thrTimeline[50].adopters < thrG.n
  /\ thrTimeline[49].adopters < thrTimeline[50].adopters

====
